---- MODULE Spec2Model ----
(***************************************************************************)
(* Market-structure and signal-aggregation engine of the cati_bot          *)
(* repository: MarketData (candle store, indicators, support/resistance    *)
(* levels) and SignalAnalyzer (trend, micro-signals, market cycle, price   *)
(* prediction, trade signal).                                              *)
(*                                                                         *)
(* Numbers.  Prices are integers in ticks, 100 ticks to one currency unit. *)
(* Scores, confidences and level prices are exact rationals [n, d] kept in *)
(* lowest terms (the code uses binary floats; the model idealises them).   *)
(* Price predictions are fixed-point: centi-ticks, rounded towards zero.    *)
(***************************************************************************)
EXTENDS Integers, Sequences, FiniteSets, TLC

(* ------------------------------ rationals ------------------------------ *)

Abs(x) == IF x < 0 THEN -x ELSE x

RECURSIVE GCD(_, _)
GCD(a, b) == IF b = 0 THEN a ELSE GCD(b, a % b)

Rat(n, d) ==
    IF n = 0 THEN [n |-> 0, d |-> 1]
    ELSE LET g == GCD(Abs(n), d) IN [n |-> n \div g, d |-> d \div g]

RInt(k) == [n |-> k, d |-> 1]
RLt(a, b) == a.n * b.d < b.n * a.d
RLe(a, b) == a.n * b.d <= b.n * a.d
RAdd(a, b) == Rat(a.n * b.d + b.n * a.d, a.d * b.d)
RSub(a, b) == Rat(a.n * b.d - b.n * a.d, a.d * b.d)
RMul(a, b) == Rat(a.n * b.n, a.d * b.d)
RAbs(a) == [n |-> Abs(a.n), d |-> a.d]
RMax(a, b) == IF RLt(a, b) THEN b ELSE a
RMin(a, b) == IF RLt(b, a) THEN b ELSE a

(* ------------------------------- CONFIG -------------------------------- *)

timeframes == <<"5m", "15m", "1h", "4h", "24">>
TF == {timeframes[i] : i \in 1..Len(timeframes)}

rsi_period == 14
macd_slow_period == 26
ema_long_period == 50
rsi_oversold == 30
rsi_overbought == 70
vol_multiplier == 2
stop_loss_percent == 1
take_profit_percent == 9

Max3(a, b, c) == IF a >= b /\ a >= c THEN a ELSE IF b >= c THEN b ELSE c

\* min_periods of calculate_indicators
min_periods == Max3(rsi_period, macd_slow_period, ema_long_period)

\* fewer candles than this: no levels, no market cycle, degenerate prediction
MinCandles == 30
\* lookback cap of the pivot search
LookbackCap == 200
\* at most this many levels are kept per side
MaxLevelsPerSide == 10

(* --------------------- the candle feed (environment) ------------------- *)

\* A cleaned DataFrame of one timeframe, reduced to what the code reads:
\*   len              number of candles
\*   open, close      of the last candle (ticks)
\*   close20          closes.iloc[-21] (closes.iloc[0] when len <= 20)
\*   volat            close.pct_change().std() * 100, in 0.01 %
\*   drift            sign of close.pct_change().tail(10).mean()
\*   flat, dents      the low/high series: candle i has low flat.low and high
\*                    flat.high, each raised by i * flat.rise, except that
\*                    candle 3k has the low and the high of dents[k] where
\*                    these are not 0
NoFrame == [len |-> 0]

Frame(len, open, close, close20, volat, drift, flat, dents) ==
    [len |-> len, open |-> open, close |-> close, close20 |-> close20,
     volat |-> volat, drift |-> drift, flat |-> flat, dents |-> dents]

\* df['low'].iloc[i], df['high'].iloc[i] (i from 0)
LowAt(df, i) ==
    IF i % 3 = 0 /\ (i \div 3) \in 1..Len(df.dents) /\ df.dents[i \div 3].low # 0
    THEN df.dents[i \div 3].low ELSE df.flat.low + i * df.flat.rise

HighAt(df, i) ==
    IF i % 3 = 0 /\ (i \div 3) \in 1..Len(df.dents) /\ df.dents[i \div 3].high # 0
    THEN df.dents[i \div 3].high ELSE df.flat.high + i * df.flat.rise

Flat == [low |-> 0, high |-> 0]
Dent(p) == [low |-> p, high |-> 0]
Bump(p) == [low |-> 0, high |-> p]

\* the last two samples of every indicator series of one timeframe
IndicatorSet(rsi, macd_line, signal_line, ema_short, ema_medium, ema_long, volumes, avg_volume) ==
    [rsi |-> rsi, macd_line |-> macd_line, signal_line |-> signal_line,
     ema_short |-> ema_short, ema_medium |-> ema_medium, ema_long |-> ema_long,
     volumes |-> volumes, avg_volume |-> avg_volume]

\* indicators[tf] == {} (created by calculate_indicators, nothing computed)
EmptyDict == [empty |-> TRUE]
\* timeframe not in the dict
Absent == [absent |-> TRUE]

IsSet(ind) == ind # Absent /\ ind # EmptyDict

(* ------------------------------ MarketData ----------------------------- *)

VARIABLES
    candles,          \* MarketData.candles: timeframe -> DataFrame (NoFrame: no key)
    indicators,       \* MarketData.indicators: timeframe -> indicator dict
    support,          \* MarketData.support
    resistance,       \* MarketData.resistance
    last_price,       \* MarketData.last_price (ticks; 0 until a 5m fetch succeeds)
    grouped_levels,   \* the value _group_levels returned in the last pass
    cached,           \* the symbol is in TradingBot.market_data_cache
    pass_result,      \* what the last initialize()/update() returned
    pc                \* 0: no pass running; 1..5: about to fetch timeframes[pc];
                      \* 6: the loop is over; 7: the pass returned, analysis pending

\* one pivot candidate, as appended to pivot_points
Pivot(price, type, date) ==
    [price |-> price, type |-> type, strength |-> 1, date |-> date]

\* a pivot test against the two candles before only
PivotsAt_before(df, i) ==
    (IF LowAt(df, i) < LowAt(df, i - 1) /\ LowAt(df, i) < LowAt(df, i - 2)
     THEN <<Pivot(LowAt(df, i), "support", i)>> ELSE <<>>)
    \o
    (IF HighAt(df, i) > HighAt(df, i - 1) /\ HighAt(df, i) > HighAt(df, i - 2)
     THEN <<Pivot(HighAt(df, i), "resistance", i)>> ELSE <<>>)

\* the body of the pivot loop for candle i: a pivot low, then a pivot high
PivotsAt(df, i) ==
    (IF /\ LowAt(df, i) < LowAt(df, i - 1) /\ LowAt(df, i) < LowAt(df, i - 2)
        /\ LowAt(df, i) < LowAt(df, i + 1) /\ LowAt(df, i) < LowAt(df, i + 2)
     THEN <<Pivot(LowAt(df, i), "support", i)>> ELSE <<>>)
    \o
    (IF /\ HighAt(df, i) > HighAt(df, i - 1) /\ HighAt(df, i) > HighAt(df, i - 2)
        /\ HighAt(df, i) > HighAt(df, i + 1) /\ HighAt(df, i) > HighAt(df, i + 2)
     THEN <<Pivot(HighAt(df, i), "resistance", i)>> ELSE <<>>)

RECURSIVE ScanPivots(_, _, _)
ScanPivots(df, i, stop) ==
    IF i >= stop THEN <<>>
    ELSE IF i + 1 = stop THEN PivotsAt(df, i)
    ELSE ScanPivots(df, i, (i + stop) \div 2)
         \o ScanPivots(df, (i + stop) \div 2, stop)

lookback_period(df) == IF df.len - 4 < LookbackCap THEN df.len - 4 ELSE LookbackCap

\* for i in range(2, lookback_period - 2)
pivot_points(df) == ScanPivots(df, 2, lookback_period(df) - 2)

\* the same-type test with a threshold of 0.05 % of the price
Similar_narrow(l, current, lp) ==
    /\ 2000 * Abs(l.price - current.price) < (IF lp > 0 THEN lp ELSE 100)
    /\ l.type = current.type

\* abs(l.price - current.price) < threshold and same type, with
\* threshold = current_price * 0.005 and current_price = last_price, or 1.0
\* (100 ticks) when last_price is 0
Similar(l, current, lp) ==
    /\ 200 * Abs(l.price - current.price) < (IF lp > 0 THEN lp ELSE 100)
    /\ l.type = current.type

RECURSIVE SumStrength(_)
SumStrength(ls) == IF ls = <<>> THEN 0 ELSE Head(ls).strength + SumStrength(Tail(ls))

RECURSIVE SumPrice(_)
SumPrice(ls) ==
    IF ls = <<>> THEN 0 ELSE Head(ls).price * Head(ls).strength + SumPrice(Tail(ls))

\* the dates of the candidates merged into one level
Dates(current, similar_levels) ==
    <<current.date>> \o [k \in 1..Len(similar_levels) |-> similar_levels[k].date]

\* a merged level that keeps the price of `current`
MergedLevel_seed(current, similar_levels) ==
    [price |-> RInt(current.price),
     type |-> current.type,
     strength |-> current.strength + SumStrength(similar_levels),
     seed |-> current.price,
     members |-> Dates(current, similar_levels)]

\* one turn of the while loop: the merged level of `current` and its similar levels;
\* seed and members (not in the code's dict) record the price of `current`
\* and the dates of the candidates merged
MergedLevel(current, similar_levels) ==
    LET total_strength == current.strength + SumStrength(similar_levels)
    IN  [price |-> Rat(current.price * current.strength + SumPrice(similar_levels),
                       total_strength),
         type |-> current.type,
         strength |-> total_strength,
         seed |-> current.price,
         members |-> Dates(current, similar_levels)]

RECURSIVE GroupLoop(_, _)
GroupLoop(levels_copy, lp) ==
    IF levels_copy = <<>> THEN <<>>
    ELSE LET current == Head(levels_copy)
             rest == Tail(levels_copy)
             similar_levels == SelectSeq(rest, LAMBDA l : Similar(l, current, lp))
             remaining == SelectSeq(rest, LAMBDA l : ~Similar(l, current, lp))
         IN  <<MergedLevel(current, similar_levels)>> \o GroupLoop(remaining, lp)

_group_levels(levels, lp) == GroupLoop(levels, lp)

RECURSIVE InsertAsc(_, _)
InsertAsc(x, s) ==
    IF s = <<>> THEN <<x>>
    ELSE IF RLt(x.price, Head(s).price) THEN <<x>> \o s
    ELSE <<Head(s)>> \o InsertAsc(x, Tail(s))

RECURSIVE InsertDesc(_, _)
InsertDesc(x, s) ==
    IF s = <<>> THEN <<x>>
    ELSE IF RLt(Head(s).price, x.price) THEN <<x>> \o s
    ELSE <<Head(s)>> \o InsertDesc(x, Tail(s))

\* sorted(..., key=price) and sorted(..., key=-price): stable
RECURSIVE SortAsc(_, _)
SortAsc(s, acc) == IF s = <<>> THEN acc ELSE SortAsc(Tail(s), InsertAsc(Head(s), acc))

RECURSIVE SortDesc(_, _)
SortDesc(s, acc) == IF s = <<>> THEN acc ELSE SortDesc(Tail(s), InsertDesc(Head(s), acc))

FirstN(s, k) == IF Len(s) <= k THEN s ELSE SubSeq(s, 1, k)

\* the price the levels are partitioned by
\* the levels divided at the last 4h close, whatever last_price is
PartitionPrice_close(df, lp) == df.close

PartitionPrice(df, lp) == IF lp > 0 THEN lp ELSE df.close

\* level detection that appends to the lists MarketData holds
find_support_resistance_levels_appending(df, lp) ==
    IF df = NoFrame \/ df.len < MinCandles
    THEN [grouped |-> grouped_levels, support |-> support, resistance |-> resistance]
    ELSE LET grouped == _group_levels(pivot_points(df), lp)
             sorted_levels == SortAsc(grouped, <<>>)
             current_price == RInt(PartitionPrice(df, lp))
             below == SelectSeq(sorted_levels, LAMBDA l : RLt(l.price, current_price))
             above == SelectSeq(sorted_levels, LAMBDA l : RLt(current_price, l.price))
         IN  [grouped |-> grouped_levels \o grouped,
              support |-> support \o FirstN(SortDesc(below, <<>>), MaxLevelsPerSide),
              resistance |-> resistance
                                \o FirstN(SortAsc(above, <<>>), MaxLevelsPerSide)]

\* find_support_resistance_levels: [grouped, support, resistance]
find_support_resistance_levels(df, lp) ==
    IF df = NoFrame \/ df.len < MinCandles
    THEN [grouped |-> <<>>, support |-> <<>>, resistance |-> <<>>]
    ELSE LET grouped == _group_levels(pivot_points(df), lp)
             sorted_levels == SortAsc(grouped, <<>>)
             current_price == RInt(PartitionPrice(df, lp))
             below == SelectSeq(sorted_levels, LAMBDA l : RLt(l.price, current_price))
             above == SelectSeq(sorted_levels, LAMBDA l : RLt(current_price, l.price))
         IN  [grouped |-> grouped,
              support |-> FirstN(SortDesc(below, <<>>), MaxLevelsPerSide),
              resistance |-> FirstN(SortAsc(above, <<>>), MaxLevelsPerSide)]

(* ------------------- what the feed and the library return -------------- *)

\* indicator sets the indicator library can compute (last two samples)
\*                    rsi        macd        signal     ema_s     ema_m    ema_l vol avg
Calm  == IndicatorSet(<<50, 50>>, <<0, 0>>,   <<0, 0>>, <<3, 3>>, <<2, 2>>, 3,   10, 10)
Up    == IndicatorSet(<<24, 25>>, <<-1, 1>>,  <<0, 0>>, <<1, 3>>, <<2, 2>>, 1,   30, 10)
Down  == IndicatorSet(<<76, 75>>, <<1, -1>>,  <<0, 0>>, <<3, 1>>, <<2, 2>>, 3,   10, 10)
Rally == IndicatorSet(<<65, 65>>, <<1, 1>>,   <<0, 0>>, <<3, 3>>, <<2, 2>>, 1,   10, 10)
Slump == IndicatorSet(<<35, 35>>, <<-1, -1>>, <<0, 0>>, <<1, 1>>, <<2, 2>>, 3,   10, 10)

\* the 4h series: lows 1010 and highs 1020, a few pivots, the price now at 1000
Range4h == [low |-> 1010, high |-> 1020, rise |-> 0]
PivotDents == <<Dent(960), Bump(1040), Dent(963), Dent(1002)>>

Full4h(close20, dents) == Frame(60, 990, 1000, close20, 30, 1, Range4h, dents)

\* the series the candle feed can return for a timeframe
Feed(tf) ==
    CASE tf = "5m"  -> {Frame(60, 1010, c, 1000, 30, 1, Range4h, <<>>) : c \in {1000, 1003}}
      [] tf = "15m" -> {Frame(60, 990, 1000, 1000, 30, 1, Range4h, <<>>)}
      [] tf = "1h"  -> {Frame(60, 990, 1000, 1000, 200, -1, Range4h, <<>>),
                        Frame(20, 990, 1000, 1000, 200, -1, Range4h, <<>>)}
      [] tf = "4h"  -> {Full4h(1000, <<>>)}
                       \cup {Full4h(c, PivotDents) : c \in {1000, 943, 909, 1111}}
                       \cup {Frame(40, 990, 1000, 1000, 30, 1, Range4h, PivotDents),
                             Frame(20, 990, 1000, 1000, 30, 1, Range4h, <<>>)}
      [] tf = "24"  -> {Frame(60, 990, 1000, 1000, 30, 1, Range4h, <<>>)}

\* the indicator sets the library can compute from a series
Library(tf, df) ==
    IF tf = "4h"
    THEN CASE df.close20 = 909  -> {Rally}
           [] df.close20 = 943  -> {Rally, Calm}
           [] df.close20 = 1111 -> {Slump}
           [] OTHER -> IF df.dents = <<>> THEN {Calm} ELSE {Calm, Up, Down, Rally}
    ELSE CASE tf = "5m"  -> {Calm, Up}
           [] tf = "15m" -> {Up, Down}
           [] tf = "1h"  -> {Calm, Up, Down}
           [] tf = "24"  -> {Down}

(* ------------------------------ SignalAnalyzer ------------------------- *)

VARIABLES
    signals,            \* SignalAnalyzer.signals: timeframe -> [buy, sell] (Absent: no key)
    trend,              \* SignalAnalyzer.trend: timeframe or "overall" -> label
    market_cycles,      \* SignalAnalyzer.market_cycles (EmptyDict: {})
    price_predictions,  \* SignalAnalyzer.price_predictions (EmptyDict: {})
    long_term_targets,  \* SignalAnalyzer.long_term_targets (EmptyDict: {})
    decision,           \* the locals of the last _generate_trade_signal
    last_signal,        \* SignalAnalyzer.last_signal ("None": None)
    analysis_result     \* what analyze() returned ("none": not called)

md_vars == <<candles, indicators, support, resistance, last_price, grouped_levels,
             cached, pass_result>>
an_vars == <<signals, trend, market_cycles, price_predictions, long_term_targets,
             decision, last_signal, analysis_result>>

VARIABLES
    symbol_result     \* what TradingBot.analyze_symbol returned ("none": not yet)

\* history variables, written by the passes of SpecPasses only
VARIABLES
    attempted,        \* the timeframes whose turn of the loop ran in this pass
    skipped,          \* those of them whose turn stored no series (the fetch
                      \* raised or returned no candles)
    frozen            \* what the pass before produced, kept while this update()
                      \* pass leaves every series, indicator set and last_price
                      \* as they were (NoSnapshot otherwise)

history_vars == <<attempted, skipped, frozen>>

(* --------------------------- NotificationSender ------------------------ *)

\* one call of NotificationSender._send_telegram_message
VARIABLES
    message_length,   \* len(message) of the call (0: no call yet)
    chunk,            \* the part being sent: 1 for a message sent whole, i + 1
                      \* of the loop over the chunks otherwise
    attempt,          \* attempt of the loop over range(max_retries)
    success,          \* the local success of the branch of the long messages
    posted,           \* part -> the answers to its requests.post calls, in order
    returned          \* what the call returned ("none": no call yet,
                      \* "pending": the call is running)

send_vars == <<message_length, chunk, attempt, success, posted, returned>>

\* NotificationSender.__init__ and TradingBot.__init__: no message sent yet
InitSender ==
    /\ message_length = 0
    /\ chunk = 0
    /\ attempt = 0
    /\ success = TRUE
    /\ posted = <<>>
    /\ returned = "none"

\* the subscriptions and the dialogs
VARIABLES
    default_signal_type,  \* CONFIG["default_signal_type"]
    user_subscriptions,   \* NotificationSender.user_subscriptions: its items in
                          \* the order of the dict, each with its key chat_id
    user_context,         \* NotificationSender.user_context: chat_id -> the
                          \* state and data["analyze_symbol"] (NoContext: no key)
    in_flight,            \* the message whose _process_message sleeps in a
                          \* retry of its _send_telegram_message (NoMessage)
    accepted,             \* the analysis request answered last as accepted
    requests              \* what get_analyze_requests() returned last
                          \* ({NoRequest}: not called yet)

chat_vars == <<default_signal_type, user_subscriptions, user_context, in_flight,
               accepted, requests>>

\* CONFIG["telegram_chat_id"]
telegram_chat_id == "845124301"

\* the chats that write to the bot
ChatIds == {telegram_chat_id, "111", "222"}

NoContext == [state |-> "no key", analyze_symbol |-> ""]
Idle == [state |-> "idle", analyze_symbol |-> ""]
NoMessage == [chat_id |-> "", then |-> "nothing", coin |-> ""]
NoRequest == [chat_id |-> "", symbol |-> ""]

\* NotificationSender.__init__ under the default signal type d. config.py
\* defines no "default_signal_type", which __init__ reads: a sender exists
\* only under a configuration that defines it.
InitChats(d) ==
    /\ default_signal_type = d
    /\ user_subscriptions =
           <<[chat_id |-> telegram_chat_id, coins |-> <<"ALL">>, signal_type |-> d]>>
    /\ user_context = [c \in ChatIds |-> NoContext]
    /\ in_flight = NoMessage
    /\ accepted = NoRequest
    /\ requests = {NoRequest}

\* one call of NotificationSender.send_signal_notification
VARIABLES
    notifying         \* the signal, the locals of the call, the chats its
                      \* _send_telegram_message calls went to, and its result

\* no call yet
NoCall ==
    [signal |-> [symbol |-> "", signal_type |-> "", confidence |-> 0,
                 term_type |-> ""],
     position |-> 0, size |-> 0, sends |-> <<>>, subscribers_found |-> FALSE,
     sent_to_main_chat |-> FALSE, steady |-> {}, slept |-> FALSE,
     result |-> "none"]

(* ------------------------------ TradingBot ----------------------------- *)

VARIABLES
    is_running,       \* TradingBot.is_running
    stop_events,      \* the asyncio.Event objects start() created, in order:
                      \* whether each is set; TradingBot._stop_event is the
                      \* last one (None while there is none)
    tasks,            \* the coroutines of start(), _analysis_loop and
                      \* _process_user_requests_loop: where each is suspended
    last_call,        \* the last call of start() or stop() and what it returned
    disturbed         \* a task wrote the MarketData of the symbol while the
                      \* pass of another task over it was suspended

bot_vars == <<is_running, stop_events, tasks, last_call, disturbed>>

NoCallYet == [call |-> "none", was_running |-> FALSE, returned |-> "none"]

\* TradingBot.__init__
InitBot ==
    /\ is_running = FALSE
    /\ stop_events = <<>>
    /\ tasks = <<>>
    /\ last_call = NoCallYet
    /\ disturbed = FALSE

front_vars == <<send_vars, chat_vars, notifying, bot_vars>>
InitFront == InitSender /\ InitChats("ALL") /\ notifying = NoCall /\ InitBot

vars == <<md_vars, an_vars, pc, symbol_result, history_vars, front_vars>>

NoSnapshot == [nosnapshot |-> TRUE]

\* last_signal is None
NoSignal == [none |-> TRUE]

\* SignalAnalyzer.__init__
NewAnalyzer ==
    [signals |-> [tf \in TF |-> Absent],
     trend |-> [k \in TF \cup {"overall"} |-> IF k = "24" THEN "nokey" ELSE "undetermined"],
     market_cycles |-> EmptyDict,
     price_predictions |-> EmptyDict,
     long_term_targets |-> EmptyDict,
     decision |-> EmptyDict,
     last_signal |-> NoSignal,
     analysis_result |-> "none"]

\* the attributes of the current SignalAnalyzer become those of a
Becomes(a) ==
    /\ signals' = a.signals
    /\ trend' = a.trend
    /\ market_cycles' = a.market_cycles
    /\ price_predictions' = a.price_predictions
    /\ long_term_targets' = a.long_term_targets
    /\ decision' = a.decision
    /\ last_signal' = a.last_signal
    /\ analysis_result' = a.analysis_result

\* the truth value of "if not indicators"
NoIndicators(ind) == ~IsSet(ind)

\* _analyze_trend(timeframe): the value of trend[timeframe] afterwards
_analyze_trend(ind, old) ==
    IF NoIndicators(ind) THEN old
    ELSE LET short_above_medium == ind.ema_short[2] > ind.ema_medium[2]
             medium_above_long == ind.ema_medium[2] > ind.ema_long
             short_above_long == ind.ema_short[2] > ind.ema_long
             trend_strength == (IF short_above_medium THEN 1 ELSE 0)
                               + (IF medium_above_long THEN 1 ELSE 0)
                               + (IF short_above_long THEN 1 ELSE 0)
         IN  IF trend_strength = 3 THEN "up"
             ELSE IF trend_strength = 0 THEN "down"
             ELSE "mixed"

\* one micro-signal; strength in tenths
MicroSignal(type, strength) == [type |-> type, strength |-> strength]

When(cond, sig) == IF cond THEN <<sig>> ELSE <<>>

\* _find_signals(timeframe): the value of signals[timeframe] afterwards
\* (series are <<previous sample, latest sample>>)
_find_signals(ind, df) ==
    IF NoIndicators(ind) THEN Absent
    ELSE LET current_rsi == ind.rsi[2]
             prev_rsi == ind.rsi[1]
             current_macd == ind.macd_line[2]
             prev_macd == ind.macd_line[1]
             current_signal == ind.signal_line[2]
             prev_signal == ind.signal_line[1]
             spike == ind.volumes > ind.avg_volume * vol_multiplier
         IN  [buy |->
                 When(current_rsi < rsi_oversold /\ prev_rsi < rsi_oversold,
                      MicroSignal("RSI", 7))
                 \o When(current_macd > current_signal /\ prev_macd <= prev_signal,
                         MicroSignal("MACD", 8))
                 \o When(current_macd > 0 /\ prev_macd <= 0, MicroSignal("MACD Zero", 6))
                 \o When(ind.ema_short[2] > ind.ema_medium[2]
                            /\ ind.ema_short[1] <= ind.ema_medium[1],
                         MicroSignal("EMA Cross", 7))
                 \o When(spike /\ df.close > df.open, MicroSignal("Volume", 6)),
              sell |->
                 When(current_rsi > rsi_overbought /\ prev_rsi > rsi_overbought,
                      MicroSignal("RSI", 7))
                 \o When(current_macd < current_signal /\ prev_macd >= prev_signal,
                         MicroSignal("MACD", 8))
                 \o When(current_macd < 0 /\ prev_macd >= 0, MicroSignal("MACD Zero", 6))
                 \o When(ind.ema_short[2] < ind.ema_medium[2]
                            /\ ind.ema_short[1] >= ind.ema_medium[1],
                         MicroSignal("EMA Cross", 7))
                 \o When(spike /\ ~(df.close > df.open), MicroSignal("Volume", 6))]

\* weights.get(timeframe, 1) of _determine_overall_trend
TrendWeight(tf) ==
    CASE tf = "5m" -> 1 [] tf = "15m" -> 2 [] tf = "1h" -> 3 [] tf = "4h" -> 5 [] OTHER -> 1

\* twice the weight a label adds to the up score and to the down score
UpShare(label, weight) ==
    IF label = "up" THEN 2 * weight ELSE IF label = "down" THEN 0 ELSE weight

DownShare(label, weight) ==
    IF label = "down" THEN 2 * weight ELSE IF label = "up" THEN 0 ELSE weight

RECURSIVE SumOver(_, _)
SumOver(f, keys) ==
    IF keys = {} THEN 0
    ELSE LET k == CHOOSE x \in keys : TRUE IN f[k] + SumOver(f, keys \ {k})

\* the keys of self.trend other than the overall one
TrendKeys(tr) == {k \in DOMAIN tr : k # "overall" /\ tr[k] # "nokey"}

\* _determine_overall_trend: the value of trend['overall'] afterwards
_determine_overall_trend(tr) ==
    LET keys == TrendKeys(tr)
        total_weight == SumOver([k \in keys |-> TrendWeight(k)], keys)
        up2 == SumOver([k \in keys |-> UpShare(tr[k], TrendWeight(k))], keys)
        down2 == SumOver([k \in keys |-> DownShare(tr[k], TrendWeight(k))], keys)
    IN  IF up2 * 100 >= 65 * 2 * total_weight THEN "up"
        ELSE IF down2 * 100 >= 65 * 2 * total_weight THEN "down"
        ELSE "sideways"

\* price_change_percent of _analyze_market_cycles
price_change_percent(df) == Rat((df.close - df.close20) * 100, df.close20)

\* the phase rule without the 0.9 cap on the confidence
MarketPhase_uncapped(current_rsi, macd_line, signal_line, pcp) ==
    IF current_rsi > 60 /\ macd_line > signal_line /\ RLt(RInt(5), pcp)
    THEN <<"bullish", RAdd(Rat(1, 2), RMul(RAbs(pcp), Rat(1, 20)))>>
    ELSE IF current_rsi < 40 /\ macd_line < signal_line /\ RLt(pcp, RInt(-5))
    THEN <<"bearish", RAdd(Rat(1, 2), RMul(RAbs(pcp), Rat(1, 20)))>>
    ELSE IF 40 <= current_rsi /\ current_rsi <= 60 /\ RLt(RAbs(pcp), RInt(3))
    THEN <<"ranging", Rat(7, 10)>>
    ELSE <<"transitional", Rat(1, 2)>>

\* the phase rule of _analyze_market_cycles: <<market_phase, confidence>>
MarketPhase(current_rsi, macd_line, signal_line, pcp) ==
    IF current_rsi > 60 /\ macd_line > signal_line /\ RLt(RInt(5), pcp)
    THEN <<"bullish", RMin(RAdd(Rat(1, 2), RMul(RAbs(pcp), Rat(1, 20))), Rat(9, 10))>>
    ELSE IF current_rsi < 40 /\ macd_line < signal_line /\ RLt(pcp, RInt(-5))
    THEN <<"bearish", RMin(RAdd(Rat(1, 2), RMul(RAbs(pcp), Rat(1, 20))), Rat(9, 10))>>
    ELSE IF 40 <= current_rsi /\ current_rsi <= 60 /\ RLt(RAbs(pcp), RInt(3))
    THEN <<"ranging", Rat(7, 10)>>
    ELSE <<"transitional", Rat(1, 2)>>

\* cycle_patterns of _analyze_market_cycles
CyclePatterns(ind, trend4h, pcp) ==
    When(ind.rsi[2] < 30 /\ ind.rsi[1] < ind.rsi[2] /\ ind.macd_line[2] > ind.signal_line[2],
         "possible bottom")
    \o When(ind.rsi[2] > 70 /\ ind.rsi[1] > ind.rsi[2]
               /\ ind.macd_line[2] < ind.signal_line[2],
            "possible top")
    \o When(trend4h = "up" /\ ind.rsi[2] > 50 /\ ind.macd_line[2] > ind.signal_line[2]
               /\ RLt(RInt(0), pcp),
            "uptrend continuation")
    \o When(trend4h = "down" /\ ind.rsi[2] < 50 /\ ind.macd_line[2] < ind.signal_line[2]
               /\ RLt(pcp, RInt(0)),
            "downtrend continuation")

\* the market cycle of the except branch, returned for a short series too
_analyze_market_cycles_default(df, ind, trend4h) ==
    IF df = NoFrame \/ df.len < MinCandles \/ NoIndicators(ind)
    THEN [phase |-> "undetermined", confidence |-> RInt(0), patterns |-> <<>>,
          price_change_percent |-> RInt(0)]
    ELSE LET pcp == price_change_percent(df)
             ph == MarketPhase(ind.rsi[2], ind.macd_line[2], ind.signal_line[2], pcp)
         IN  [phase |-> ph[1], confidence |-> ph[2],
              patterns |-> CyclePatterns(ind, trend4h, pcp),
              price_change_percent |-> pcp]

\* _analyze_market_cycles on a new analyzer: the value of market_cycles afterwards
_analyze_market_cycles(df, ind, trend4h) ==
    IF df = NoFrame \/ df.len < MinCandles THEN EmptyDict
    ELSE IF NoIndicators(ind) THEN EmptyDict
    ELSE LET pcp == price_change_percent(df)
             ph == MarketPhase(ind.rsi[2], ind.macd_line[2], ind.signal_line[2], pcp)
         IN  [phase |-> ph[1], confidence |-> ph[2],
              patterns |-> CyclePatterns(ind, trend4h, pcp),
              price_change_percent |-> pcp]

(* price predictions: prices in centi-ticks, percentages in 0.0001 %,
   every division rounded towards zero *)

Sgn(x) == IF x > 0 THEN 1 ELSE IF x < 0 THEN -1 ELSE 0

\* np.sqrt, in hundredths, rounded down
Isqrt100(x) == CHOOSE r \in 0..2000 : r * r <= 10000 * x /\ (r + 1) * (r + 1) > 10000 * x

\* int(timeframe.replace('h', '')) of the hour timeframes
time_periods(timeframe) == IF timeframe = "1h" THEN 1 ELSE 4

\* the fallback prediction around a price (ticks)
SafePrediction(current_price) ==
    [min |-> 95 * current_price, max |-> 105 * current_price,
     expected |-> 100 * current_price, confidence |-> Rat(1, 2)]

\* min(prices, key=lambda x: abs(x - target)): the first of the nearest
RECURSIVE NearestTo(_, _, _)
NearestTo(levels, target, best) ==
    IF levels = <<>> THEN best
    ELSE NearestTo(Tail(levels), target,
                   IF RLt(RAbs(RSub(Head(levels).price, target)), RAbs(RSub(best, target)))
                   THEN Head(levels).price ELSE best)

\* (bound + level) / 2, bound in centi-ticks and level in ticks
Halfway(bound, level) == (bound * level.d + 100 * level.n) \div (2 * level.d)

\* _calculate_price_prediction(timeframe, hours)
_calculate_price_prediction(timeframe, hours, df, ind, label, sup, res, lp) ==
    IF df = NoFrame \/ df.len < MinCandles THEN SafePrediction(lp)
    ELSE IF NoIndicators(ind) THEN SafePrediction(df.close)
    ELSE LET current_price == df.close
             volatility == IF df.volat < 50 THEN 50 ELSE df.volat
             time_factor == Isqrt100(hours \div time_periods(timeframe))
             volatility_adjusted == volatility * time_factor
             trend_direction == IF label = "up" THEN 10
                                ELSE IF label = "down" THEN -10
                                ELSE IF df.drift > 0 THEN 3 ELSE -3
             raw_change == Sgn(trend_direction)
                           * ((Abs(trend_direction) * volatility_adjusted) \div 20)
             expected_change_percent ==
                 IF Abs(raw_change) < 1000 THEN 1000 * Sgn(trend_direction) ELSE raw_change
             expected_price ==
                 100 * current_price
                 + Sgn(expected_change_percent)
                   * ((current_price * Abs(expected_change_percent)) \div 10000)
             spread == (current_price * volatility_adjusted) \div 10000
             Shifted(x) == x + Sgn(trend_direction)
                               * ((x * Abs(trend_direction) * 2 * volatility) \div 1000000)
             min_price == Shifted(100 * current_price - spread)
             max_price == Shifted(100 * current_price + spread)
             nearest_support == NearestTo(sup, Rat(min_price, 100), sup[1].price)
             nearest_resistance == NearestTo(res, Rat(max_price, 100), res[1].price)
             min_final == IF sup # <<>> /\ RLt(Rat(min_price, 100), nearest_support)
                          THEN Halfway(min_price, nearest_support) ELSE min_price
             max_final == IF res # <<>> /\ RLt(nearest_resistance, Rat(max_price, 100))
                          THEN Halfway(max_price, nearest_resistance) ELSE max_price
             confidence == RMax(Rat(3, 10), Rat(1000000 - time_factor * volatility, 1000000))
         IN  IF expected_price <= 0 \/ min_final <= 0 \/ max_final <= 0
             THEN SafePrediction(current_price)
             ELSE [min |-> min_final, max |-> max_final, expected |-> expected_price,
                   confidence |-> confidence]

\* _predict_future_prices: the value of price_predictions afterwards
_predict_future_prices(cd, inds, tr, sup, res, lp) ==
    [short_term |-> _calculate_price_prediction("1h", 6, cd["1h"], inds["1h"], tr["1h"],
                                                sup, res, lp),
     medium_term |-> _calculate_price_prediction("4h", 24, cd["4h"], inds["4h"], tr["4h"],
                                                 sup, res, lp),
     long_term |-> _calculate_price_prediction("4h", 168, cd["4h"], inds["4h"], tr["4h"],
                                               sup, res, lp)]

Least(a, b) == IF a <= b THEN a ELSE b

\* _set_long_term_targets: how many targets each list of long_term_targets holds
_set_long_term_targets(df, sup, res, predictions) ==
    IF df = NoFrame \/ df.len < MinCandles THEN EmptyDict
    ELSE [buy |-> Least(5, Len(sup)) + (IF predictions.long_term.min > 0 THEN 1 ELSE 0),
          sell |-> Least(5, Len(res)) + (IF predictions.long_term.max > 0 THEN 1 ELSE 0),
          neutral |-> IF predictions.medium_term.expected > 0 THEN 1 ELSE 0]

(* ------------------------- _generate_trade_signal ---------------------- *)

\* the timeframes of the weights dict, in its order
SignalTimeframes == <<"5m", "15m", "1h", "4h">>

\* the weights of _generate_trade_signal, in tenths
SignalWeight(tf) ==
    CASE tf = "5m" -> 1 [] tf = "15m" -> 2 [] tf = "1h" -> 3 [] tf = "4h" -> 4

RECURSIVE SumStrengths(_)
SumStrengths(sigs) ==
    IF sigs = <<>> THEN 0 ELSE Head(sigs).strength + SumStrengths(Tail(sigs))

\* the loop over the weights: <<total_weight (tenths), buy, sell (hundredths)>>
RECURSIVE ScoreLoop(_, _, _)
ScoreLoop(sig, i, acc) ==
    IF i > Len(SignalTimeframes) THEN acc
    ELSE LET tf == SignalTimeframes[i]
         IN  IF sig[tf] = Absent THEN ScoreLoop(sig, i + 1, acc)
             ELSE ScoreLoop(sig, i + 1,
                            <<acc[1] + SignalWeight(tf),
                              acc[2] + SumStrengths(sig[tf].buy) * SignalWeight(tf),
                              acc[3] + SumStrengths(sig[tf].sell) * SignalWeight(tf)>>)

\* "if total_weight > 0: score /= total_weight"
Normalized(raw, total_weight) ==
    IF total_weight > 0 THEN Rat(raw, 10 * total_weight) ELSE Rat(raw, 100)

\* the default taken whatever market_cycles holds
market_phase_confidence_default(mc) == Rat(1, 2)

\* self.market_cycles.get('confidence', 0.5)
market_phase_confidence(mc) == IF mc = EmptyDict THEN Rat(1, 2) ELSE mc.confidence

\* the larger score decides, whatever the distance between the two
DecideType_larger(buy_score, sell_score) ==
    IF RLt(sell_score, buy_score) THEN <<"BUY", buy_score>> ELSE <<"SELL", sell_score>>

\* the decision without the 1.5 ratio tests
DecideType_noratio(buy_score, sell_score) ==
    IF RLt(Rat(4, 10), buy_score) THEN <<"BUY", buy_score>>
    ELSE IF RLt(Rat(4, 10), sell_score) THEN <<"SELL", sell_score>>
    ELSE IF RLt(RAbs(RSub(buy_score, sell_score)), Rat(1, 10))
    THEN <<"HOLD", RMax(Rat(3, 10), RMul(RAdd(buy_score, sell_score), Rat(1, 2)))>>
    ELSE IF RLt(sell_score, buy_score) THEN <<"BUY", buy_score>>
    ELSE <<"SELL", sell_score>>

\* the final signal type: <<signal_type, signal_strength>>
DecideType(buy_score, sell_score) ==
    IF RLt(Rat(4, 10), buy_score) /\ RLt(RMul(sell_score, Rat(3, 2)), buy_score)
    THEN <<"BUY", buy_score>>
    ELSE IF RLt(Rat(4, 10), sell_score) /\ RLt(RMul(buy_score, Rat(3, 2)), sell_score)
    THEN <<"SELL", sell_score>>
    ELSE IF RLt(RAbs(RSub(buy_score, sell_score)), Rat(1, 10))
    THEN <<"HOLD", RMax(Rat(3, 10), RMul(RAdd(buy_score, sell_score), Rat(1, 2)))>>
    ELSE IF RLt(sell_score, buy_score) THEN <<"BUY", buy_score>>
    ELSE <<"SELL", sell_score>>

\* the gate at 0.5
LowConfidence_third(signal_confidence) == RLt(signal_confidence, Rat(3, 10))

LowConfidence_half(signal_confidence) == RLt(signal_confidence, Rat(5, 10))

\* "if signal_confidence < 0.6: return None"
LowConfidence(signal_confidence) == RLt(signal_confidence, Rat(6, 10))

\* current_price * (1 + percent / 100)
PercentOff(price, percent) == Rat(price * (100 + percent), 100)

Action(kind, price) == [kind |-> kind, price |-> price]

\* exits at the flat percentages, whatever levels are held
Exits_flat(signal_type, lp, sup, res) ==
    IF signal_type = "BUY"
    THEN <<PercentOff(lp, take_profit_percent), PercentOff(lp, -stop_loss_percent)>>
    ELSE <<PercentOff(lp, -take_profit_percent), PercentOff(lp, stop_loss_percent)>>

\* take_profit and stop_loss of a BUY or SELL signal: <<take_profit, stop_loss>>
Exits(signal_type, lp, sup, res) ==
    IF signal_type = "BUY"
    THEN <<IF res # <<>> THEN res[1].price ELSE PercentOff(lp, take_profit_percent),
           IF sup # <<>> THEN RMax(sup[1].price, PercentOff(lp, -stop_loss_percent))
           ELSE PercentOff(lp, -stop_loss_percent)>>
    ELSE <<IF sup # <<>> THEN sup[1].price ELSE PercentOff(lp, -take_profit_percent),
           IF res # <<>> THEN RMin(res[1].price, PercentOff(lp, stop_loss_percent))
           ELSE PercentOff(lp, stop_loss_percent)>>

\* the recommendations built for every signal type
HasSuggestions_always(signal_type) == TRUE

\* the recommendations are built for these signal types only
HasSuggestions(signal_type) == signal_type \in {"BUY", "SELL"}

\* suggested_actions of the signal
Suggestions(signal_type, lp, sup, res) ==
    IF HasSuggestions(signal_type)
    THEN LET ex == Exits(signal_type, lp, sup, res)
         IN  <<Action("entry", RInt(lp)), Action("take_profit", ex[1]),
               Action("stop_loss", ex[2]), Action("long_term_targets", RInt(0)),
               Action("price_forecasts", RInt(0))>>
    ELSE <<>>

\* sl_percent divides by current_price: ZeroDivisionError when last_price is 0
DividesByZero(signal_type, lp) == HasSuggestions(signal_type) /\ lp = 0

\* default_signal of the except branch
default_signal(lp) ==
    [signal_type |-> "HOLD", strength |-> RInt(0), confidence |-> RInt(0), price |-> lp,
     suggested_actions |-> <<Action("check_system", RInt(0))>>]

\* _generate_trade_signal: ret is the returned value, last_signal the
\* attribute when it returns, decision its locals
_generate_trade_signal(sig, mc, lp, sup, res, old_signal) ==
    LET sc == ScoreLoop(sig, 1, <<0, 0, 0>>)
        buy_score == Normalized(sc[2], sc[1])
        sell_score == Normalized(sc[3], sc[1])
        ty == DecideType(buy_score, sell_score)
        signal_confidence == RMul(ty[2], market_phase_confidence(mc))
        locals == [buy_score |-> buy_score, sell_score |-> sell_score,
                   total_weight |-> sc[1],
                   market_phase_confidence |-> market_phase_confidence(mc),
                   signal_type |-> ty[1], signal_strength |-> ty[2],
                   signal_confidence |-> signal_confidence]
        signal == [signal_type |-> ty[1], strength |-> ty[2],
                   confidence |-> signal_confidence, price |-> lp,
                   suggested_actions |-> Suggestions(ty[1], lp, sup, res)]
    IN  IF LowConfidence(signal_confidence)
        THEN [ret |-> NoSignal, last_signal |-> old_signal,
              decision |-> locals @@ [outcome |-> "suppressed"]]
        ELSE IF DividesByZero(ty[1], lp)
        THEN [ret |-> NoSignal, last_signal |-> default_signal(lp),
              decision |-> locals @@ [outcome |-> "error"]]
        ELSE [ret |-> signal, last_signal |-> signal,
              decision |-> locals @@ [outcome |-> "emitted"]]

\* "self.last_signal = self._generate_trade_signal()"
Assigned(generated) == generated.ret

\* analyze() on a new SignalAnalyzer: the analyzer's attributes afterwards
\* and the returned value
Analysis(cd, inds, sup, res, lp) ==
    LET per_timeframe == [k \in DOMAIN NewAnalyzer.trend |->
                             IF k \in TF THEN _analyze_trend(inds[k], NewAnalyzer.trend[k])
                             ELSE NewAnalyzer.trend[k]]
        sig == [tf \in TF |-> _find_signals(inds[tf], cd[tf])]
        tr == [per_timeframe EXCEPT !["overall"] = _determine_overall_trend(per_timeframe)]
        mc == _analyze_market_cycles(cd["4h"], inds["4h"], tr["4h"])
        predictions == _predict_future_prices(cd, inds, tr, sup, res, lp)
        generated == _generate_trade_signal(sig, mc, lp, sup, res, NewAnalyzer.last_signal)
    IN  [signals |-> sig,
         trend |-> tr,
         market_cycles |-> mc,
         price_predictions |-> predictions,
         long_term_targets |-> _set_long_term_targets(cd["4h"], sup, res, predictions),
         decision |-> generated.decision,
         last_signal |-> Assigned(generated),
         analysis_result |-> IF Assigned(generated) # NoSignal THEN "True" ELSE "False"]

\* MarketData.__init__
InitBack ==
    /\ candles = [tf \in TF |-> NoFrame]
    /\ indicators = [tf \in TF |-> Absent]
    /\ support = <<>>
    /\ resistance = <<>>
    /\ last_price = 0
    /\ grouped_levels = <<>>
    /\ cached = FALSE
    /\ pass_result = "none"
    /\ pc = 0
    /\ signals = NewAnalyzer.signals
    /\ trend = NewAnalyzer.trend
    /\ market_cycles = NewAnalyzer.market_cycles
    /\ price_predictions = NewAnalyzer.price_predictions
    /\ long_term_targets = NewAnalyzer.long_term_targets
    /\ decision = NewAnalyzer.decision
    /\ last_signal = NewAnalyzer.last_signal
    /\ analysis_result = NewAnalyzer.analysis_result
    /\ symbol_result = "none"
    /\ attempted = {}
    /\ skipped = {}
    /\ frozen = NoSnapshot

Init == InitBack /\ InitFront

\* calculate_indicators(tf): the values indicators[tf] can have afterwards.
\* fresh: the series was replaced by this fetch (the same series gives the
\* same indicator values again).
calculate_indicators(tf, df, old, fresh) ==
    IF df = NoFrame THEN {old}
    ELSE IF df.len < min_periods THEN {IF old = Absent THEN EmptyDict ELSE old}
    ELSE IF ~fresh /\ IsSet(old) THEN {old}
    ELSE Library(tf, df)

\* the symbol is not in market_data_cache: MarketData(symbol).initialize()
\* begins (a SignalAnalyzer is built anew for every analysis)
initialize ==
    /\ pc = 0
    /\ ~cached
    /\ pc' = 1
    /\ Becomes(NewAnalyzer)
    /\ symbol_result' = "none"
    /\ UNCHANGED md_vars

\* the symbol is in market_data_cache: market_data_cache[symbol].update() begins
update ==
    /\ pc = 0
    /\ cached
    /\ pc' = 1
    /\ Becomes(NewAnalyzer)
    /\ symbol_result' = "none"
    /\ UNCHANGED md_vars

\* an exception that leaves the loop ends the pass
after_failure_propagated(k) == 7

\* "except Exception: ... continue": the loop goes on with the next timeframe
after_failure(k) == k + 1

\* one turn of the loop over CONFIG["timeframes"]: the fetch raised (the
\* turn is skipped) or returned no candles (nothing is stored)
fetch_failed ==
    /\ pc \in 1..5
    /\ \E how \in {"raise", "empty"} :
         \E ind \in (IF how = "raise" THEN {indicators[timeframes[pc]]}
                     ELSE calculate_indicators(timeframes[pc], candles[timeframes[pc]],
                                               indicators[timeframes[pc]], FALSE)) :
            indicators' = [indicators EXCEPT ![timeframes[pc]] = ind]
    /\ pc' = after_failure(pc)
    /\ UNCHANGED <<candles, support, resistance, last_price, grouped_levels, cached,
                   pass_result, an_vars, symbol_result>>

\* one turn of the loop: fetch_candles stored a series, calculate_indicators ran
fetch_candles ==
    /\ pc \in 1..5
    /\ \E df \in Feed(timeframes[pc]) :
         /\ candles' = [candles EXCEPT ![timeframes[pc]] = df]
         /\ last_price' = IF timeframes[pc] = "5m" THEN df.close ELSE last_price
         /\ \E ind \in calculate_indicators(timeframes[pc], df,
                                            indicators[timeframes[pc]], TRUE) :
              indicators' = [indicators EXCEPT ![timeframes[pc]] = ind]
    /\ pc' = pc + 1
    /\ UNCHANGED <<support, resistance, grouped_levels, cached, pass_result, an_vars,
                   symbol_result>>

\* the end of initialize()/update(): the levels, return True
finish_pass ==
    /\ pc = 6
    /\ LET lv == find_support_resistance_levels(candles["4h"], last_price)
       IN  /\ grouped_levels' = lv.grouped
           /\ support' = lv.support
           /\ resistance' = lv.resistance
    /\ pass_result' = "True"
    /\ cached' = TRUE
    /\ pc' = 7
    /\ UNCHANGED <<candles, indicators, last_price, an_vars, symbol_result>>

\* SignalAnalyzer(market_data).analyze() on the MarketData the pass left
analyze ==
    /\ pc = 7
    /\ Becomes(Analysis(candles, indicators, support, resistance, last_price))
    /\ pc' = 0
    /\ UNCHANGED <<md_vars, symbol_result>>

\* the keys of CONFIG
ConfigKeys ==
    {"default_symbol", "available_symbols", "time_interval_minutes", "timeframes",
     "rsi_period", "rsi_oversold", "rsi_overbought", "macd_fast_period",
     "macd_slow_period", "macd_signal_period", "ema_short", "ema_medium", "ema_long",
     "vol_multiplier", "stop_loss_percent", "take_profit_percent",
     "long_term_analysis", "support_resistance_lookback", "volatility_multiplier",
     "trend_impact_factor", "api_base_url", "telegram_bot_token", "telegram_chat_id",
     "telegram_enabled", "always_send_to_main_chat", "telegram_debug",
     "telegram_retry_attempts", "telegram_retry_delay", "telegram_timeout",
     "telegram_max_message_length", "log_level", "log_file", "log_format"}

\* CONFIG[key] raises KeyError
KeyError(key) == key \notin ConfigKeys

\* the positional parameters of SignalAnalyzer.analyze besides self
analyze_parameters == 0

\* the signal types a caller passes: the three the docstring names, one unknown
SignalTypes == {"ALL", "SHORT", "LONG", "WEEKLY"}

\* MarketData._timeframe_to_api_interval
_timeframe_to_api_interval(timeframe) ==
    CASE timeframe = "5m" -> "5"
      [] timeframe = "15m" -> "15"
      [] timeframe = "1h" -> "60"
      [] timeframe = "4h" -> "240"
      [] timeframe = "24h" -> "D"
      [] timeframe = "24" -> "D"
      [] OTHER -> "5"

\* TradingBot.analyze_symbol after the pass: the check of the signal type and
\* signal_analyzer.analyze(signal_type). Every exception is caught by the
\* handler of analyze_symbol, which returns False.
analyze_symbol ==
    /\ pc = 7
    /\ \E signal_type \in SignalTypes :
         LET raised == \/ KeyError("signal_types")
                       \/ 1 > analyze_parameters
         IN  IF raised
             THEN /\ symbol_result' = "False"
                  /\ UNCHANGED an_vars
             ELSE /\ Becomes(Analysis(candles, indicators, support, resistance,
                                      last_price))
                  /\ symbol_result' = "True"
    /\ pc' = 0
    /\ UNCHANGED md_vars

\* the history variables are left alone
Untracked == UNCHANGED <<history_vars, front_vars>>

Next ==
    \/ initialize /\ Untracked
    \/ update /\ Untracked
    \/ fetch_failed /\ Untracked
    \/ fetch_candles /\ Untracked
    \/ finish_pass /\ Untracked
    \/ analyze /\ Untracked
    \/ analyze_symbol /\ Untracked

Spec == Init /\ [][Next]_vars

(* ------------------- passes with their history recorded ---------------- *)

\* what a pass and the analysis after it produce
Produced ==
    [levels |-> <<grouped_levels, support, resistance>>,
     analysis |-> <<signals, trend, market_cycles, price_predictions,
                    long_term_targets, decision, last_signal, analysis_result>>]

\* a pass begins; f is what the pass before produced, if it is to be compared
Begun(f) ==
    /\ attempted' = {}
    /\ skipped' = {}
    /\ frozen' = f
    /\ UNCHANGED front_vars

\* one turn of the loop over the timeframes is recorded
Turn(stored) ==
    /\ attempted' = attempted \cup {timeframes[pc]}
    /\ skipped' = IF stored THEN skipped ELSE skipped \cup {timeframes[pc]}
    /\ frozen' = IF <<candles', indicators', last_price'>>
                        = <<candles, indicators, last_price>>
                  THEN frozen ELSE NoSnapshot
    /\ UNCHANGED front_vars

\* the part of the feed the recorded passes draw from
PassesFrames(tf) ==
    CASE tf = "5m" -> {df \in Feed(tf) : df.close = 1000}
      [] tf = "4h" -> {Full4h(1000, PivotDents), Full4h(909, PivotDents),
                       Frame(20, 990, 1000, 1000, 30, 1, Range4h, <<>>)}
      [] OTHER -> Feed(tf)

PassesProfiles(tf) ==
    CASE tf = "5m" -> {Calm}
      [] tf = "1h" -> {Up, Down}
      [] tf = "4h" -> {Rally, Calm}
      [] tf = "15m" -> {Up}
      [] OTHER -> Library(tf, NoFrame)

PassesFeed ==
    \A tf \in TF :
        /\ candles[tf] # NoFrame => candles[tf] \in PassesFrames(tf)
        /\ IsSet(indicators[tf]) => indicators[tf] \in PassesProfiles(tf)

NextPasses ==
    \/ initialize /\ Begun(NoSnapshot)
    \/ update /\ Begun(Produced)
    \/ fetch_failed /\ Turn(FALSE)
    \/ fetch_candles /\ Turn(TRUE) /\ PassesFeed'
    \/ finish_pass /\ Untracked
    \/ analyze /\ Untracked

SpecPasses == Init /\ [][NextPasses]_vars

(* ---------------- level detection over many pivot series --------------- *)

\* the most pivot candles a 4h series carries
MaxPivots == 4

\* what the candle of a pivot slot can look like
PivotShapes == {Flat, Dent(960), Dent(963), Dent(964), Dent(967), Bump(1040), Bump(1043)}

\* The end of the loop of an initialize() pass in which the 4h fetch returned
\* a series with up to MaxPivots pivots, the 5m fetch failed or returned a
\* series closing at 1000, and the other fetches failed.
\* a 4h series whose lows and highs rise by r from candle to candle up to
\* the price now, with highs above the rise where bumps says so
Rising(r, bumps) ==
    Frame(60, 999, 1000, 1000 - 20 * r, 30, 1,
          [low |-> 999 - 59 * r, high |-> 1009 - 59 * r, rise |-> r], bumps)

\* "limit = 500": the most candles one fetch returns
FetchLimit == 500

\* the candles (counted in threes) that carry the old and the recent shape of
\* a series of FetchLimit candles
OldCandle == 2
RecentCandle == 160

\* a 4h series of FetchLimit candles, oldest first: the shape old at candle
\* 3 * OldCandle, the shape recent at candle 3 * RecentCandle
LongSeries(old, recent) ==
    Frame(FetchLimit, 990, 1000, 1000, 30, 1, Range4h,
          [k \in 1..RecentCandle |->
              IF k = OldCandle THEN old ELSE IF k = RecentCandle THEN recent ELSE Flat])

\* the 4h series level detection is run on
LevelSeries ==
    {Full4h(1000, dents) : dents \in [1..MaxPivots -> PivotShapes]}
    \cup {LongSeries(old, recent) : old, recent \in {Flat, Dent(960), Bump(1040)}}
    \cup {Rising(r, bumps) : r \in {1, 2}, bumps \in [1..MaxPivots -> {Flat, Bump(1043)}]}

InitLevels ==
    /\ last_price \in {0, 1000}
    /\ \E df \in LevelSeries :
         candles = [tf \in TF |->
                       IF tf = "4h" THEN df
                       ELSE IF tf = "5m" /\ last_price > 0
                       THEN Frame(60, 1010, last_price, 1000, 30, 1, Range4h, <<>>)
                       ELSE NoFrame]
    /\ indicators = [tf \in TF |-> IF candles[tf] # NoFrame THEN Calm ELSE Absent]
    /\ support = <<>>
    /\ resistance = <<>>
    /\ grouped_levels = <<>>
    /\ cached = FALSE
    /\ pass_result = "none"
    /\ pc = 6
    /\ signals = NewAnalyzer.signals
    /\ trend = NewAnalyzer.trend
    /\ market_cycles = NewAnalyzer.market_cycles
    /\ price_predictions = NewAnalyzer.price_predictions
    /\ long_term_targets = NewAnalyzer.long_term_targets
    /\ decision = NewAnalyzer.decision
    /\ last_signal = NewAnalyzer.last_signal
    /\ analysis_result = NewAnalyzer.analysis_result
    /\ symbol_result = "none"
    /\ attempted = {}
    /\ skipped = {}
    /\ frozen = NoSnapshot
    /\ InitFront

NextLevels ==
    \/ finish_pass /\ Untracked
    \/ analyze /\ Untracked

SpecLevels == InitLevels /\ [][NextLevels]_vars

(* --------------- the analysis over many combinations of signals -------- *)

\* indicator sets with one group of micro-signals each
\*                        rsi        macd          signal      ema_s     ema_m   ema_l vol avg
Oversold   == IndicatorSet(<<25, 25>>, <<0, 0>>,   <<0, 0>>,   <<2, 2>>, <<2, 2>>, 2, 10, 10)
Turning    == IndicatorSet(<<25, 25>>, <<0, 1>>,   <<-1, 0>>,  <<2, 3>>, <<2, 2>>, 2, 10, 10)
Recovering == IndicatorSet(<<25, 25>>, <<-2, -1>>, <<-2, -2>>, <<2, 2>>, <<2, 2>>, 2, 10, 10)
Topping    == IndicatorSet(<<75, 75>>, <<2, 1>>,   <<2, 2>>,   <<2, 2>>, <<2, 2>>, 2, 10, 10)

SignalProfiles == {Calm, Oversold, Turning, Recovering, Topping}

\* 60 candles of a flat price
FlatSeries == Frame(60, 1000, 1000, 1000, 0, 0, [low |-> 995, high |-> 1005, rise |-> 0], <<>>)

\* MarketData after initialize() fetched the flat series on every timeframe
InitSignals ==
    /\ candles = [tf \in TF |-> FlatSeries]
    /\ indicators \in [TF -> SignalProfiles]
    /\ indicators["24"] \in {Calm, Oversold}
    /\ last_price = 1000
    /\ support = <<>>
    /\ resistance = <<>>
    /\ grouped_levels = <<>>
    /\ cached = TRUE
    /\ pass_result = "True"
    /\ pc = 7
    /\ signals = NewAnalyzer.signals
    /\ trend = NewAnalyzer.trend
    /\ market_cycles = NewAnalyzer.market_cycles
    /\ price_predictions = NewAnalyzer.price_predictions
    /\ long_term_targets = NewAnalyzer.long_term_targets
    /\ decision = NewAnalyzer.decision
    /\ last_signal = NewAnalyzer.last_signal
    /\ analysis_result = NewAnalyzer.analysis_result
    /\ symbol_result = "none"
    /\ attempted = {}
    /\ skipped = {}
    /\ frozen = NoSnapshot
    /\ InitFront

NextSignals == analyze /\ Untracked

SpecSignals == InitSignals /\ [][NextSignals]_vars

(* -------------------- _send_telegram_message, one call ----------------- *)

\* max_retries = 3
max_retries == 3

\* the length of a chunk and the longest message sent whole
ChunkLength == 4000

\* len(message) of the messages sent
MessageLengths == {120, 4000, 4001, 8000}

\* the parts of a message: itself, or
\* len([message[i:i + 4000] for i in range(0, len(message), 4000)])
Parts(length) ==
    IF length > ChunkLength
    THEN (length + ChunkLength - 1) \div ChunkLength
    ELSE 1

\* what requests.post does: it raises (no connection, timeout), or returns a
\* response with a status code and a body whose "ok" is true, is false, or
\* that is not JSON ("invalid")
Raised == [raised |-> TRUE, status |-> 0, ok |-> "none"]
Answer(status, ok) == [raised |-> FALSE, status |-> status, ok |-> ok]
Answers ==
    {Raised, Answer(200, "True"), Answer(200, "False"), Answer(400, "False"),
     Answer(502, "invalid")}

\* response.raise_for_status() raises
raise_for_status(r) == r.status >= 400

\* the try of one attempt of a message sent whole: response.json(), the test
\* of data.get("ok"), then raise_for_status()
post_whole(r) ==
    IF r.raised \/ r.ok = "invalid" THEN "except"
    ELSE IF r.ok = "False" THEN "return False"
    ELSE IF raise_for_status(r) THEN "except"
    ELSE "break"

\* the try of one attempt of a chunk: raise_for_status(), response.json(),
\* then the test of data.get("ok")
post_chunk(r) ==
    IF r.raised \/ raise_for_status(r) \/ r.ok = "invalid" THEN "except"
    ELSE IF r.ok = "False" THEN "return False"
    ELSE "break"

\* the call begins: the token is set, the message is split if it is long
_send_telegram_message ==
    /\ returned # "pending"
    /\ \E length \in MessageLengths :
         /\ message_length' = length
         /\ posted' = [i \in 1..Parts(length) |-> <<>>]
    /\ chunk' = 1
    /\ attempt' = 0
    /\ success' = TRUE
    /\ returned' = "pending"

\* the loop over the attempts of this part is left: the next chunk, or the
\* return after the last part (return success, return True)
next_chunk(s) ==
    /\ success' = s
    /\ IF chunk = Len(posted)
       THEN /\ returned' = IF s THEN "True" ELSE "False"
            /\ UNCHANGED <<chunk, attempt>>
       ELSE /\ chunk' = chunk + 1
            /\ attempt' = 0
            /\ UNCHANGED returned

\* one requests.post of the part being sent, and what follows it up to the
\* next requests.post or the return (the sleep before a retry included)
post ==
    /\ returned = "pending"
    /\ \E r \in Answers :
         LET long == message_length > ChunkLength
             outcome == IF long THEN post_chunk(r) ELSE post_whole(r)
         IN  /\ posted' = [posted EXCEPT ![chunk] = Append(@, r)]
             /\ CASE outcome = "return False" ->
                       /\ returned' = "False"
                       /\ UNCHANGED <<chunk, attempt, success>>
                  [] outcome = "break" -> next_chunk(success)
                  [] outcome = "except" ->
                       IF attempt < max_retries - 1
                       THEN /\ attempt' = attempt + 1
                            /\ UNCHANGED <<chunk, success, returned>>
                       ELSE IF long
                            THEN next_chunk(FALSE)
                            ELSE /\ returned' = "False"
                                 /\ UNCHANGED <<chunk, attempt, success>>
    /\ UNCHANGED message_length

\* MarketData, SignalAnalyzer and the passes are left alone
Backstage == UNCHANGED <<md_vars, an_vars, pc, symbol_result, history_vars>>

NextSending ==
    \/ _send_telegram_message /\ Backstage /\ UNCHANGED <<chat_vars, notifying, bot_vars>>
    \/ post /\ Backstage /\ UNCHANGED <<chat_vars, notifying, bot_vars>>

SpecSending == Init /\ [][NextSending]_vars

(* ----------------------- the dialogs of the chats ---------------------- *)

\* CONFIG["available_symbols"]: the first two of its twenty symbols
available_symbols == <<"TONUSDT", "ETHUSDT">>

\* the word a chat sends for all coins (its Cyrillic letters written in Latin)
VSE == "VSE"

\* the texts the chats send: the commands, the word for all coins, symbols in
\* upper and in lower case, "all", and a symbol that is not available
Texts ==
    {"/subscribe", "/unsubscribe", "/analyze", "/help", VSE, "TONUSDT",
     "ethusdt", "all", "FOOUSDT"}

\* str.upper
upper(text) ==
    CASE text = "ethusdt" -> "ETHUSDT"
      [] text = "all" -> "ALL"
      [] OTHER -> text

Elements(seq) == {seq[i] : i \in DOMAIN seq}

\* [c for c in seq if c != coin]
Without(seq, coin) == SelectSeq(seq, LAMBDA c : c # coin)

\* list.remove(coin): the first occurrence is removed
remove(seq, coin) ==
    LET first == CHOOSE i \in DOMAIN seq :
                     /\ seq[i] = coin
                     /\ \A j \in 1..(i - 1) : seq[j] # coin
    IN  SubSeq(seq, 1, first - 1) \o SubSeq(seq, first + 1, Len(seq))

\* chat_id in self.user_subscriptions
Subscribed(subs, chat_id) == \E i \in DOMAIN subs : subs[i].chat_id = chat_id

\* self.user_subscriptions[chat_id]["coins"]
Coins(subs, chat_id) ==
    (CHOOSE sub \in Elements(subs) : sub.chat_id = chat_id).coins

\* self.user_subscriptions[chat_id]["coins"] = coins
SetCoins(subs, chat_id, coins) ==
    [i \in DOMAIN subs |->
        IF subs[i].chat_id = chat_id THEN [subs[i] EXCEPT !.coins = coins]
        ELSE subs[i]]

\* self.user_subscriptions[chat_id] = {"coins": coins, "signal_type": default}
\* for a chat without a key: a new item at the end of the dict
NewSubscription(subs, chat_id, coins) ==
    Append(subs, [chat_id |-> chat_id, coins |-> coins,
                  signal_type |-> default_signal_type])

\* NotificationSender._handle_subscribe, up to its _send_telegram_message
_handle_subscribe(subs, chat_id, text) ==
    LET coin == upper(text)
    IN  IF text = VSE
        THEN IF Subscribed(subs, chat_id)
             THEN SetCoins(subs, chat_id, <<"ALL">>)
             ELSE NewSubscription(subs, chat_id, <<"ALL">>)
        ELSE IF coin \notin Elements(available_symbols)
        THEN subs
        ELSE IF Subscribed(subs, chat_id)
        THEN IF "ALL" \in Elements(Coins(subs, chat_id))
             THEN SetCoins(subs, chat_id, <<coin>>)
             ELSE IF coin \notin Elements(Coins(subs, chat_id))
             THEN SetCoins(subs, chat_id, Append(Coins(subs, chat_id), coin))
             ELSE subs
        ELSE NewSubscription(subs, chat_id, <<coin>>)

\* NotificationSender._handle_unsubscribe, up to its _send_telegram_message
_handle_unsubscribe(subs, chat_id, text) ==
    LET coin == upper(text)
    IN  IF text = VSE
        THEN IF Subscribed(subs, chat_id)
             THEN SetCoins(subs, chat_id, <<>>)
             ELSE NewSubscription(subs, chat_id, <<>>)
        ELSE IF Subscribed(subs, chat_id)
        THEN IF coin \in Elements(Coins(subs, chat_id))
             THEN SetCoins(subs, chat_id, remove(Coins(subs, chat_id), coin))
             ELSE IF "ALL" \in Elements(Coins(subs, chat_id))
             THEN SetCoins(subs, chat_id, Without(available_symbols, coin))
             ELSE subs
        ELSE subs

\* the state a command leaves in user_context before its message is sent
\* (NotificationSender._process_command)
_process_command(context, text) ==
    CASE text = "/subscribe" -> [Idle EXCEPT !.state = "wait_for_subscribe"]
      [] text = "/unsubscribe" -> [Idle EXCEPT !.state = "wait_for_unsubscribe"]
      [] text = "/analyze" -> [Idle EXCEPT !.state = "wait_for_analyze"]
      [] OTHER -> context

\* what _process_message does after the _send_telegram_message of its handler
\* returned, for the message m that was being processed:
\*  - a command, or a text outside a dialog: nothing
\*  - a reply in a dialog: _process_context_dialog sets the state to idle
\*  - an accepted request: _handle_analyze_request stores the symbol and the
\*    state wait_for_analyze_processing, returns, and _process_context_dialog
\*    sets the state to idle
after_send(context, m) ==
    LET stored == [context EXCEPT ![m.chat_id] =
                      [state |-> "wait_for_analyze_processing",
                       analyze_symbol |-> m.coin]]
    IN  CASE m.then = "nothing" -> context
          [] m.then = "reset" -> [context EXCEPT ![m.chat_id] = Idle]
          [] m.then = "store and reset" -> [stored EXCEPT ![m.chat_id] = Idle]

\* the request a message accepted, once its handler has stored it
Stored(m) ==
    IF m.then = "store and reset"
    THEN [chat_id |-> m.chat_id, symbol |-> m.coin]
    ELSE accepted

\* NotificationSender._process_message for one message of a chat, up to the
\* first sleep of a _send_telegram_message (slept) or to its end
_process_message(chat_id, text, slept) ==
    LET context == IF user_context[chat_id] = NoContext
                   THEN [user_context EXCEPT ![chat_id] = Idle]
                   ELSE user_context
        subs == IF Subscribed(user_subscriptions, chat_id)
                THEN user_subscriptions
                ELSE NewSubscription(user_subscriptions, chat_id, <<>>)
        state == context[chat_id].state
        coin == upper(text)
        m == [chat_id |-> chat_id,
              then |-> IF state = "idle" THEN "nothing"
                       ELSE IF /\ state = "wait_for_analyze"
                               /\ coin \in Elements(available_symbols)
                       THEN "store and reset"
                       ELSE "reset",
              coin |-> coin]
        written ==
            CASE state = "wait_for_subscribe" ->
                     <<_handle_subscribe(subs, chat_id, text), context>>
              [] state = "wait_for_unsubscribe" ->
                     <<_handle_unsubscribe(subs, chat_id, text), context>>
              [] state = "wait_for_analyze" -> <<subs, context>>
              [] OTHER ->
                     <<subs, [context EXCEPT ![chat_id] = _process_command(@, text)]>>
    IN  /\ in_flight = NoMessage
        /\ user_subscriptions' = written[1]
        /\ IF slept
           THEN /\ user_context' = written[2]
                /\ in_flight' = m
                /\ UNCHANGED accepted
           ELSE /\ user_context' = after_send(written[2], m)
                /\ in_flight' = NoMessage
                /\ accepted' = Stored(m)
        /\ UNCHANGED <<default_signal_type, requests>>

\* the _send_telegram_message of the handler returns after its sleep, and
\* _process_message runs to its end
resume_message ==
    /\ in_flight # NoMessage
    /\ user_context' = after_send(user_context, in_flight)
    /\ accepted' = Stored(in_flight)
    /\ in_flight' = NoMessage
    /\ UNCHANGED <<default_signal_type, user_subscriptions, requests>>

\* the requests get_analyze_requests finds
Waiting(context) ==
    {c \in ChatIds : /\ context[c].state = "wait_for_analyze_processing"
                     /\ context[c].analyze_symbol # ""}

\* NotificationSender.get_analyze_requests, called by
\* TradingBot._process_user_requests_loop
get_analyze_requests ==
    /\ requests' = {[chat_id |-> c, symbol |-> user_context[c].analyze_symbol]
                      : c \in Waiting(user_context)}
    /\ user_context' = [c \in ChatIds |->
                           IF c \in Waiting(user_context) THEN Idle
                           ELSE user_context[c]]
    /\ UNCHANGED <<default_signal_type, user_subscriptions, in_flight, accepted>>

\* no message is being sent and no signal is being notified
Offstage == UNCHANGED <<send_vars, notifying, bot_vars>>

\* the chats of the dialogs checked
DialogChats == {telegram_chat_id, "111"}

NextDialogs ==
    \/ /\ \E chat_id \in DialogChats, text \in Texts, slept \in BOOLEAN :
              _process_message(chat_id, text, slept)
       /\ Backstage /\ Offstage
    \/ resume_message /\ Backstage /\ Offstage
    \/ get_analyze_requests /\ Backstage /\ Offstage

SpecDialogs == Init /\ [][NextDialogs]_vars

\* the loop of TradingBot._process_user_requests_loop calls
\* get_analyze_requests every second, and a sleeping _send_telegram_message
\* wakes up: neither waits for ever
SpecDialogsFair ==
    /\ SpecDialogs
    /\ WF_vars(get_analyze_requests /\ Backstage /\ Offstage)
    /\ WF_vars(resume_message /\ Backstage /\ Offstage)

(* ------------------- send_signal_notification, one call ---------------- *)

\* the signals notified: the symbol, the signal type, the confidence in
\* percent and the term type ("ALL" also when the signal has no term_type)
NotifiedSignal(symbol, signal_type, confidence, term_type) ==
    [symbol |-> symbol, signal_type |-> signal_type, confidence |-> confidence,
     term_type |-> term_type]

NotifiedSignals ==
    {NotifiedSignal("TONUSDT", "BUY", 60, "ALL"),
     NotifiedSignal("ETHUSDT", "SELL", 80, "SHORT"),
     NotifiedSignal("TONUSDT", "BUY", 59, "ALL"),
     NotifiedSignal("TONUSDT", "HOLD", 80, "ALL")}

\* coin_match and signal_type_match of the loop, for one item of the dict
Matches(subscription, signal) ==
    /\ \/ signal.symbol \in Elements(subscription.coins)
       \/ "ALL" \in Elements(subscription.coins)
    /\ \/ subscription.signal_type = signal.term_type
       \/ subscription.signal_type = "ALL"
       \/ signal.term_type = "ALL"

\* str(chat_id) == str(CONFIG["telegram_chat_id"])
sent_to_main_chat(chat_id) == chat_id = telegram_chat_id

\* the items i..last of `for chat_id, subscription in
\* self.user_subscriptions.items()`, each with its _send_telegram_message
RECURSIVE Deliver(_, _, _)
Deliver(c, i, last) ==
    IF i > last THEN c
    ELSE LET subscription == user_subscriptions[i]
             sent == [c EXCEPT !.sends = Append(@, subscription.chat_id),
                               !.subscribers_found = TRUE,
                               !.sent_to_main_chat =
                                   @ \/ sent_to_main_chat(subscription.chat_id)]
         IN  Deliver(IF Matches(subscription, c.signal) THEN sent ELSE c,
                     i + 1, last)

\* CONFIG.get("always_send_to_main_chat", True)
always_send_to_main_chat == TRUE

\* after the loop: the message to the main chat when no subscriber was found,
\* the copy to the main chat when it received nothing yet, and return True
Finish(c) ==
    LET found == IF ~c.subscribers_found
                 THEN [c EXCEPT !.sends = Append(@, telegram_chat_id),
                                !.sent_to_main_chat = TRUE]
                 ELSE c
        copied == IF always_send_to_main_chat /\ ~found.sent_to_main_chat
                  THEN [found EXCEPT !.sends = Append(@, telegram_chat_id)]
                  ELSE found
    IN  [copied EXCEPT !.position = c.size + 1, !.result = "True"]

\* the call runs on from the item c.position: the next() of the iterator
\* raises RuntimeError when the dict changed its size (the handler of the call
\* returns False); else the loop runs to the end of the call, or to a
\* _send_telegram_message that sleeps before a retry
Runs(c) ==
    IF Len(user_subscriptions) # c.size
    THEN {[c EXCEPT !.result = "False"]}
    ELSE {Finish(Deliver(c, c.position, c.size))}
         \cup {[Deliver(c, c.position, stop) EXCEPT !.position = stop + 1,
                                                    !.slept = TRUE]
                 : stop \in {i \in c.position..c.size :
                                Matches(user_subscriptions[i], c.signal)}}

\* NotificationSender.send_signal_notification: the call begins. steady holds
\* the chats whose subscription matches the signal now and that send no
\* message while the call runs.
send_signal_notification(signal) ==
    /\ notifying.result # "pending"
    /\ IF signal.signal_type = "HOLD" \/ signal.confidence < 60
       THEN notifying' = [NoCall EXCEPT !.signal = signal, !.result = "False"]
       ELSE notifying' \in
                Runs([NoCall EXCEPT
                         !.signal = signal,
                         !.position = 1,
                         !.size = Len(user_subscriptions),
                         !.steady = {user_subscriptions[i].chat_id :
                                       i \in {j \in DOMAIN user_subscriptions :
                                                Matches(user_subscriptions[j], signal)}},
                         !.result = "pending"])
    /\ UNCHANGED <<send_vars, chat_vars>>

\* the _send_telegram_message of the loop returns after its sleep
deliver ==
    /\ notifying.result = "pending"
    /\ notifying' \in Runs(notifying)
    /\ UNCHANGED <<send_vars, chat_vars>>

\* the chat sent a message while the call runs
Touched(chat_id) ==
    notifying' = IF notifying.result = "pending"
                 THEN [notifying EXCEPT !.steady = @ \ {chat_id}]
                 ELSE notifying

\* the texts of the chats while signals are notified
NotifyTexts == {"/help"}

\* an item of user_subscriptions
Subscription(chat_id, coins, d) ==
    [chat_id |-> chat_id, coins |-> coins, signal_type |-> d]

\* the sender after some dialogs: the main chat kept ["ALL"], unsubscribed
\* from all coins or subscribed to one coin; the chat 111 wrote or not, and
\* subscribed to all coins, to one coin or to none; 222 has not written yet
InitNotify ==
    /\ InitBack
    /\ InitSender
    /\ \E d \in {"ALL", "LONG"},
          own \in {<<"ALL">>, <<>>, <<"TONUSDT">>},
          other \in {<<"no key">>, <<"ALL">>, <<>>, <<"ETHUSDT">>} :
         /\ default_signal_type = d
         /\ user_subscriptions =
                <<Subscription(telegram_chat_id, own, d)>>
                \o (IF other = <<"no key">> THEN <<>>
                    ELSE <<Subscription("111", other, d)>>)
         /\ user_context =
                [c \in ChatIds |->
                    IF \/ c = telegram_chat_id /\ own # <<"ALL">>
                       \/ c = "111" /\ other # <<"no key">>
                    THEN Idle ELSE NoContext]
    /\ in_flight = NoMessage
    /\ accepted = NoRequest
    /\ requests = {NoRequest}
    /\ notifying = NoCall
    /\ InitBot

NextNotify ==
    \/ /\ \E signal \in NotifiedSignals : send_signal_notification(signal)
       /\ Backstage /\ UNCHANGED bot_vars
    \/ deliver /\ Backstage /\ UNCHANGED bot_vars
    \/ /\ \E chat_id \in ChatIds, text \in NotifyTexts :
              _process_message(chat_id, text, FALSE) /\ Touched(chat_id)
       /\ Backstage /\ UNCHANGED <<send_vars, bot_vars>>

SpecNotify == InitNotify /\ [][NextNotify]_vars

(* ---------------------- the tasks of one TradingBot -------------------- *)

\* the calls of start() that find the bot stopped
MaxStarts == 2

\* the awaits at which a coroutine is suspended and other tasks run, were
\* the fetch of the candles awaited on the event loop
Suspending_fetch == {"asyncio.sleep", "update"}

\* the awaits at which a coroutine is suspended and other tasks run:
\* asyncio.sleep. `await market_data.update()` and `await
\* market_data.initialize()` run to their end without a suspension:
\* fetch_candles calls the blocking requests.get and awaits nothing else.
Suspending == {"asyncio.sleep"}

\* self._stop_event.is_set(), read when the coroutine runs
is_set == stop_events[Len(stop_events)]

\* a coroutine: its kind, the await it is suspended at ("created": not run
\* yet, "done": returned), whether stop() was called since it was created,
\* whether it ran an iteration after that, and whether it ran analyze_symbol
Task(kind, at) ==
    [kind |-> kind, at |-> at, stopped |-> FALSE, late |-> FALSE, passed |-> FALSE]

\* the two loops start() creates
Loops == <<Task("analysis", "created"), Task("requests", "created")>>

\* the tasks suspended between the start of the update of the symbol and
\* the construction of the Signal
InPass(ts) == {u \in DOMAIN ts : ts[u].at = "update"}

\* the task t (0: the caller of start()) writes the MarketData of the symbol
Writes(t) == disturbed' = (disturbed \/ InPass(tasks) \ {t} # {})

\* analyze_symbol begins in an iteration of the task: it is suspended in its
\* update if that await suspends; else it runs up to the Signal (or to the
\* exception analyze_symbol catches) and the loop goes to its sleep
begin_pass(task) ==
    IF "update" \in Suspending
    THEN [task EXCEPT !.at = "update", !.late = @ \/ task.stopped]
    ELSE [task EXCEPT !.at = "sleep", !.late = @ \/ task.stopped,
                      !.passed = TRUE]

\* TradingBot.start
start ==
    IF is_running
    THEN /\ last_call' = [call |-> "start", was_running |-> TRUE,
                          returned |-> "False"]
         /\ UNCHANGED <<is_running, stop_events, tasks, disturbed>>
    ELSE /\ Len(stop_events) < MaxStarts
         /\ is_running' = TRUE
         /\ stop_events' = Append(stop_events, FALSE)
         /\ Writes(0)
         /\ IF "update" \in Suspending
            THEN /\ tasks' = Append(tasks, Task("start", "update"))
                 /\ last_call' = [call |-> "start", was_running |-> FALSE,
                                  returned |-> "pending"]
            ELSE /\ tasks' = tasks \o Loops
                 /\ last_call' = [call |-> "start", was_running |-> FALSE,
                                  returned |-> "True"]

\* TradingBot.stop
stop ==
    IF ~is_running
    THEN /\ last_call' = [call |-> "stop", was_running |-> FALSE,
                          returned |-> "False"]
         /\ UNCHANGED <<is_running, stop_events, tasks, disturbed>>
    ELSE /\ stop_events' = [stop_events EXCEPT ![Len(stop_events)] = TRUE]
         /\ is_running' = FALSE
         /\ tasks' = [t \in DOMAIN tasks |->
                         IF tasks[t].at = "done" THEN tasks[t]
                         ELSE [tasks[t] EXCEPT !.stopped = TRUE]]
         /\ last_call' = [call |-> "stop", was_running |-> TRUE,
                          returned |-> "True"]
         /\ UNCHANGED disturbed

\* TradingBot._analysis_loop: the task runs for the first time, or wakes up
\* from asyncio.sleep(CONFIG["time_interval_minutes"] * 60)
_analysis_loop(t) ==
    /\ tasks[t].kind = "analysis"
    /\ tasks[t].at \in {"created", "sleep"}
    /\ IF is_set
       THEN /\ tasks' = [tasks EXCEPT ![t].at = "done"]
            /\ UNCHANGED disturbed
       ELSE IF tasks[t].at = "created"
       THEN /\ tasks' = [tasks EXCEPT ![t].at = "sleep"]
            /\ UNCHANGED disturbed
       ELSE /\ tasks' = [tasks EXCEPT ![t] = begin_pass(@)]
            /\ Writes(t)
    /\ UNCHANGED <<is_running, stop_events, last_call>>

\* TradingBot._process_user_requests_loop: the task runs for the first time,
\* or wakes up from asyncio.sleep(1); it calls analyze_symbol when
\* get_analyze_requests() returns a request
_process_user_requests_loop(t) ==
    /\ tasks[t].kind = "requests"
    /\ tasks[t].at \in {"created", "sleep"}
    /\ IF is_set
       THEN /\ tasks' = [tasks EXCEPT ![t].at = "done"]
            /\ UNCHANGED <<disturbed, chat_vars>>
       ELSE /\ get_analyze_requests
            /\ IF requests' = {}
               THEN /\ tasks' = [tasks EXCEPT ![t].at = "sleep",
                                              ![t].late = @ \/ tasks[t].stopped]
                    /\ UNCHANGED disturbed
               ELSE /\ tasks' = [tasks EXCEPT ![t] = begin_pass(@)]
                    /\ Writes(t)
    /\ UNCHANGED <<is_running, stop_events, last_call>>

\* the chat and the texts of the dialogs while the bot runs
BotTexts == {"/analyze", "TONUSDT"}

\* nothing is sent through the sender of the signals
Quiet == UNCHANGED <<send_vars, notifying>>

NextBot ==
    \/ start /\ Backstage /\ Quiet /\ UNCHANGED chat_vars
    \/ stop /\ Backstage /\ Quiet /\ UNCHANGED chat_vars
    \/ /\ \E t \in DOMAIN tasks : _analysis_loop(t)
       /\ Backstage /\ Quiet /\ UNCHANGED chat_vars
    \/ /\ \E t \in DOMAIN tasks : _process_user_requests_loop(t)
       /\ Backstage /\ Quiet
    \/ /\ \E text \in BotTexts : _process_message(telegram_chat_id, text, FALSE)
       /\ Backstage /\ Quiet /\ UNCHANGED bot_vars

SpecBot == Init /\ [][NextBot]_vars

(* ------------------------------ properties ----------------------------- *)

\* a pass has returned and no other has begun
PassDone == pc \in {0, 7} /\ pass_result = "True"

\* analyze() has returned
Analyzed == pc = 0 /\ analysis_result # "none"

\* C7 as stated: after a pass every support level is below last_price and
\* every resistance level is above it.
C7_PartitionedByLastPrice ==
    PassDone =>
        /\ \A i \in 1..Len(support) : RLt(support[i].price, RInt(last_price))
        /\ \A i \in 1..Len(resistance) : RLt(RInt(last_price), resistance[i].price)

\* two prices are closer than 0.5 % of the price cp
Closer(p, q, cp) == RLt(RMul(RInt(200), RAbs(RSub(p, q))), RInt(cp))

\* C8 as stated: no two levels of the same kind that _group_levels returned
\* are closer to each other than 0.5 % of the current price.
C8_LevelsApart ==
    (pc = 7 /\ last_price > 0) =>
        \A i, j \in 1..Len(grouped_levels) :
            (i < j /\ grouped_levels[i].type = grouped_levels[j].type)
                => ~Closer(grouped_levels[i].price, grouped_levels[j].price, last_price)

\* C8, amended: the candidates the clusters were seeded with (the first
\* candidate of each cluster, in insertion order) are of different kinds or
\* at least the threshold apart, the threshold being 0.5 % of last_price, or
\* of 1.0 (100 ticks) when last_price is 0.
C8_SeedsApart ==
    pc = 7 =>
        \A i, j \in 1..Len(grouped_levels) :
            (i < j /\ grouped_levels[i].type = grouped_levels[j].type)
                => ~Closer(RInt(grouped_levels[i].seed), RInt(grouped_levels[j].seed),
                           IF last_price > 0 THEN last_price ELSE 100)

\* C8: several clusters of one kind came out, one of them merged
C8_Witness ==
    /\ pc = 7
    /\ last_price > 0
    /\ \E i, j \in 1..Len(grouped_levels) :
         /\ i < j
         /\ grouped_levels[i].type = grouped_levels[j].type
         /\ grouped_levels[i].strength >= 2

\* the overall label the weights 1, 2, 3, 5 of 5m, 15m, 1h, 4h alone give
C9_FourWeights(tr) ==
    _determine_overall_trend([k \in DOMAIN tr |-> IF k = "24" THEN "nokey" ELSE tr[k]])

\* C9 as stated: the overall trend is the 65 % rule over 5m, 15m, 1h and 4h
\* with weights 1, 2, 3, 5; no other timeframe adds weight.
C9_OnlyFourTimeframes ==
    (Analyzed /\ \A tf \in {"5m", "15m", "1h", "4h"} : trend[tf] \in {"up", "down", "mixed"})
        => trend["overall"] = C9_FourWeights(trend)

\* a Signal was returned by _generate_trade_signal and is in last_signal
Emitted == Analyzed /\ last_signal # NoSignal

InUnit(x) == RLe(RInt(0), x) /\ RLe(x, RInt(1))

\* C1 as stated: every Signal has strength in [0,1] and confidence in [0,1].
C1_StrengthAndConfidenceInUnit ==
    Emitted => InUnit(last_signal.strength) /\ InUnit(last_signal.confidence)

\* C2: a HOLD Signal returned by _generate_trade_signal, or left in
\* last_signal after analyze(), has no suggested actions.
C2_HoldHasNoSuggestions ==
    (Emitted /\ last_signal.signal_type = "HOLD") => last_signal.suggested_actions = <<>>

\* C2: a HOLD Signal passed the confidence gate
C2_Witness ==
    /\ Emitted
    /\ last_signal.signal_type = "HOLD"
    /\ RLt(Rat(3, 10), last_signal.strength)

PredictionOrdered(p) ==
    /\ p.min <= p.expected
    /\ p.expected <= p.max
    /\ p.min > 0
    /\ p.expected > 0
    /\ p.max > 0

\* C3 as stated: every PricePrediction has min <= expected <= max, all > 0.
C3_PredictionsOrderedAndPositive ==
    Analyzed =>
        /\ PredictionOrdered(price_predictions.short_term)
        /\ PredictionOrdered(price_predictions.medium_term)
        /\ PredictionOrdered(price_predictions.long_term)

\* the BUY (SELL) condition of the decision for scores b and s
Dominates(b, s) == RLt(Rat(4, 10), b) /\ RLt(RMul(s, Rat(3, 2)), b)

\* C4: BUY if buy > 0.4 and buy > 1.5 sell; SELL if sell > 0.4 and
\* sell > 1.5 buy; otherwise HOLD with strength max(0.3, mean) if the scores
\* differ by less than 0.1, else the direction of the larger score with that
\* score as strength; the BUY and SELL conditions never both hold.
C4_DirectionRule ==
    Analyzed =>
        LET b == decision.buy_score
            s == decision.sell_score
            ty == decision.signal_type
            st == decision.signal_strength
            near == RLt(RAbs(RSub(b, s)), Rat(1, 10))
        IN  /\ ~(Dominates(b, s) /\ Dominates(s, b))
            /\ Dominates(b, s) => (ty = "BUY" /\ st = b)
            /\ Dominates(s, b) => (ty = "SELL" /\ st = s)
            /\ (~Dominates(b, s) /\ ~Dominates(s, b) /\ near)
                   => (ty = "HOLD" /\ st = RMax(Rat(3, 10), RMul(RAdd(b, s), Rat(1, 2))))
            /\ (~Dominates(b, s) /\ ~Dominates(s, b) /\ ~near)
                   => IF RLt(s, b) THEN ty = "BUY" /\ st = b ELSE ty = "SELL" /\ st = s

\* C4: neither condition held, the scores were 0.1 or more apart, and the
\* larger one, with sells and buys both present, gave the direction
C4_Witness ==
    /\ Analyzed
    /\ ~Dominates(decision.buy_score, decision.sell_score)
    /\ ~Dominates(decision.sell_score, decision.buy_score)
    /\ RLt(RInt(0), decision.buy_score)
    /\ RLt(decision.buy_score, decision.sell_score)
    /\ decision.signal_type = "SELL"

\* C5: None is returned exactly when the confidence is below 0.6 or an
\* error occurred; analyze() returns True exactly when a Signal was emitted;
\* every emitted Signal has confidence >= 0.6.
C5_ConfidenceGate ==
    Analyzed =>
        /\ last_signal = NoSignal
               <=> (RLt(decision.signal_confidence, Rat(6, 10)) \/ decision.outcome = "error")
        /\ analysis_result = "True" <=> last_signal # NoSignal
        /\ last_signal # NoSignal => RLe(Rat(6, 10), last_signal.confidence)

\* C5: a BUY or SELL decision was suppressed by the gate
C5_Witness ==
    /\ Analyzed
    /\ decision.signal_type \in {"BUY", "SELL"}
    /\ RLt(decision.signal_confidence, Rat(6, 10))
    /\ last_signal = NoSignal
    /\ analysis_result = "False"

RDiv(a, b) == Rat(a.n * b.d, a.d * b.n)

Clamp(x, lo, hi) == RMax(lo, RMin(x, hi))

RECURSIVE C6_Count(_, _, _)
C6_Count(sig, side, i) ==
    IF i > Len(SignalTimeframes) THEN 0
    ELSE (IF sig[SignalTimeframes[i]] = Absent THEN 0
          ELSE Len(sig[SignalTimeframes[i]][side]))
         + C6_Count(sig, side, i + 1)

\* the confidence C6 describes: the share of the winning score in the two
\* scores, averaged with the market-cycle confidence, plus the bonus for the
\* number of micro-signals of the winning side, clamped to [0.1, 0.95]
C6_Described(dec, sig, mc) ==
    LET buys == ~RLt(dec.buy_score, dec.sell_score)
        winning == IF buys THEN dec.buy_score ELSE dec.sell_score
        sum == RAdd(dec.buy_score, dec.sell_score)
        dominance == IF sum.n = 0 THEN RInt(0) ELSE RDiv(winning, sum)
        fired == C6_Count(sig, IF buys THEN "buy" ELSE "sell", 1)
        bonus == IF fired >= 5 THEN Rat(2, 10) ELSE IF fired >= 3 THEN Rat(1, 10) ELSE RInt(0)
        cycle == IF mc = EmptyDict THEN Rat(1, 2) ELSE mc.confidence
    IN  Clamp(RAdd(RMul(RAdd(dominance, cycle), Rat(1, 2)), bonus), Rat(1, 10), Rat(95, 100))

\* C6 as stated: the confidence of a Signal is (dominance ratio + market-cycle
\* confidence) / 2 plus 0.1 for 3 or 0.2 for 5 micro-signals, clamped to
\* [0.1, 0.95]; no Signal has a confidence below 0.1 or above 0.95.
C6_ClampedAverage ==
    Emitted =>
        /\ RLe(Rat(1, 10), last_signal.confidence)
        /\ RLe(last_signal.confidence, Rat(95, 100))
        /\ last_signal.confidence = C6_Described(decision, signals, market_cycles)

\* C6, amended: the confidence is the signal strength times the
\* market-cycle confidence (0.5 when no market cycle was computed), with no
\* bonus and no clamp; a Signal carries exactly this strength and confidence.
C6_ConfidenceIsProduct ==
    Analyzed =>
        LET cycle == IF market_cycles = EmptyDict THEN Rat(1, 2) ELSE market_cycles.confidence
        IN  /\ decision.signal_confidence = RMul(decision.signal_strength, cycle)
            /\ last_signal # NoSignal =>
                   /\ last_signal.strength = decision.signal_strength
                   /\ last_signal.confidence = RMul(last_signal.strength, cycle)

\* C6: a Signal whose market cycle has a confidence other than the default
\* and whose confidence is above 0.95
C6_Witness ==
    /\ Emitted
    /\ market_cycles # EmptyDict
    /\ market_cycles.confidence # Rat(1, 2)
    /\ RLt(Rat(95, 100), last_signal.confidence)

\* the phase and the confidence C10 describes, for the latest 4h sample
C10_Rule(ind, df, mc) ==
    LET rsi == ind.rsi[2]
        pcp == Rat((df.close - df.close20) * 100, df.close20)
        bull == rsi > 60 /\ ind.macd_line[2] > ind.signal_line[2] /\ RLt(RInt(5), pcp)
        bear == rsi < 40 /\ ind.macd_line[2] < ind.signal_line[2] /\ RLt(pcp, RInt(-5))
        flat == 40 <= rsi /\ rsi <= 60 /\ RLt(RAbs(pcp), RInt(3))
        trending == RMin(RAdd(Rat(1, 2), RDiv(RAbs(pcp), RInt(20))), Rat(9, 10))
    IN  /\ bull => (mc.phase = "bullish" /\ mc.confidence = trending)
        /\ (~bull /\ bear) => (mc.phase = "bearish" /\ mc.confidence = trending)
        /\ (~bull /\ ~bear /\ flat) => (mc.phase = "ranging" /\ mc.confidence = Rat(7, 10))
        /\ (~bull /\ ~bear /\ ~flat)
               => (mc.phase = "transitional" /\ mc.confidence = Rat(1, 2))
        /\ RLe(Rat(1, 2), mc.confidence)
        /\ RLe(mc.confidence, Rat(9, 10))

\* C10 as stated: with at least 30 4h candles the phase is decided by the
\* rule, with a confidence in [0.5, 0.9].
C10_DecidedFrom30Candles ==
    (Analyzed /\ candles["4h"].len >= MinCandles) =>
        /\ market_cycles # EmptyDict
        /\ C10_Rule(indicators["4h"], candles["4h"], market_cycles)

\* C10, amended: with at least 30 4h candles and a non-empty 4h indicator
\* set (one was computed from a series of at least 50 candles) the phase is
\* decided by the rule, with a confidence in [0.5, 0.9]; with at least 30
\* candles and an empty indicator set no phase is decided.
C10_DecidedWithIndicators ==
    (Analyzed /\ candles["4h"].len >= MinCandles) =>
        IF IsSet(indicators["4h"])
        THEN /\ market_cycles # EmptyDict
             /\ C10_Rule(indicators["4h"], candles["4h"], market_cycles)
        ELSE market_cycles = EmptyDict

\* C10: a bullish phase with a confidence strictly between 0.5 and 0.9
C10_Witness ==
    /\ Analyzed
    /\ market_cycles # EmptyDict
    /\ market_cycles.phase = "bullish"
    /\ RLt(Rat(1, 2), market_cycles.confidence)
    /\ RLt(market_cycles.confidence, Rat(9, 10))

\* analyze() has returned with fewer than 30 candles (or none) on 4h
ShortReference == Analyzed /\ candles["4h"].len < MinCandles

\* C11 as stated: with fewer than 30 4h candles the market cycle is
\* phase = undetermined with confidence 0, and this 0 is the market-cycle
\* confidence the aggregation uses.
C11_UndeterminedWithZero ==
    ShortReference =>
        /\ market_cycles # EmptyDict
        /\ market_cycles.phase = "undetermined"
        /\ market_cycles.confidence = RInt(0)
        /\ decision.market_phase_confidence = RInt(0)

\* C11, amended: with fewer than 30 4h candles no exception is raised and
\* market_cycles stays empty (no phase, no confidence); the aggregation uses
\* the default market-cycle confidence 0.5, so the signal confidence is half
\* the signal strength.
C11_EmptyCycleDefaultHalf ==
    ShortReference =>
        /\ market_cycles = EmptyDict
        /\ decision.market_phase_confidence = Rat(1, 2)
        /\ decision.signal_confidence = RMul(decision.signal_strength, Rat(1, 2))

\* C11: a Signal was emitted with fewer than 30 4h candles
C11_Witness ==
    /\ ShortReference
    /\ candles["4h"] # NoFrame
    /\ last_signal # NoSignal

\* the fallback prediction around the price cp (ticks)
C12_Degenerate(p, cp) ==
    /\ p.expected = 100 * cp
    /\ p.min = 95 * cp
    /\ p.max = 105 * cp
    /\ p.confidence = Rat(1, 2)
    /\ p.min > 0
    /\ p.expected > 0
    /\ p.max > 0

\* C12 as stated: a timeframe with fewer than 30 candles (or none) gets the
\* prediction expected = current price, min = 0.95 current, max = 1.05
\* current, confidence 0.5, and none of the three prices is zero or negative.
C12_DegenerateAndPositive ==
    Analyzed =>
        /\ candles["1h"].len < MinCandles
               => C12_Degenerate(price_predictions.short_term, last_price)
        /\ candles["4h"].len < MinCandles
               => /\ C12_Degenerate(price_predictions.medium_term, last_price)
                  /\ C12_Degenerate(price_predictions.long_term, last_price)

\* TradingBot.analyze_symbol has returned
Returned == pc = 0 /\ symbol_result # "none"

\* C16 as stated: analyze_symbol, called with any signal type (an unknown
\* one included), completes the analysis and returns True, and every
\* timeframe identifier, known or not, is mapped to an interval of the API.
C16_CompletesWithDefault ==
    /\ Returned => symbol_result = "True" /\ analysis_result # "none"
    /\ \A timeframe \in TF \cup {"24h", "1d", "30m"} :
         _timeframe_to_api_interval(timeframe) \in {"5", "15", "60", "240", "D"}

\* the levels MarketData holds are those of its 4h series and last_price
LevelsDetected ==
    LET lv == find_support_resistance_levels(candles["4h"], last_price)
    IN  <<grouped_levels, support, resistance>> = <<lv.grouped, lv.support, lv.resistance>>

C14_OnlyThisPass ==
    Analyzed =>
        /\ \A tf \in skipped : candles[tf] = NoFrame /\ ~IsSet(indicators[tf])
        /\ \A tf \in TF : IsSet(indicators[tf]) => candles[tf].len >= min_periods
        /\ "4h" \in skipped => grouped_levels = <<>>

\* the total weight of the timeframes in S whose micro-signals were collected
C15_Weight(S) ==
    ScoreLoop([tf \in TF |-> IF tf \in S THEN signals[tf] ELSE Absent], 1, <<0, 0, 0>>)[1]

\* C15 as stated: a timeframe for which the pass obtained no candles adds
\* nothing to total_weight and contributes no micro-signal, on the first
\* pass and on every later one.
C15_NoCandlesNoWeight ==
    (Analyzed /\ decision # EmptyDict) =>
        /\ \A tf \in skipped : signals[tf] = Absent
        /\ decision.total_weight = C15_Weight(TF \ skipped)

OversoldNoSell ==
    /\ Analyzed
    /\ \A tf \in TF : IsSet(indicators[tf]) /\ indicators[tf].rsi = <<25, 25>>
    /\ \A tf \in TF : signals[tf] # Absent /\ signals[tf].sell = <<>>

\* the RSI-oversold buy micro-signal is among those of the timeframe
RsiBuy(tf) ==
    \E i \in 1..Len(signals[tf].buy) : signals[tf].buy[i] = MicroSignal("RSI", 7)

\* C18 as stated: with RSI 25 on every timeframe, a flat price and no sell
\* micro-signal, every timeframe records the RSI-oversold buy micro-signal
\* and the pass produces a Signal with direction buy.
C18_OversoldGivesBuySignal ==
    OversoldNoSell =>
        /\ \A tf \in TF : RsiBuy(tf)
        /\ last_signal # NoSignal
        /\ last_signal.signal_type = "BUY"

\* C18, amended: every timeframe records the RSI-oversold buy micro-signal
\* and the aggregation decides BUY with strength >= 0.7; the market cycle is
\* not bullish at RSI 25, the confidence is half the strength, and a Signal
\* (then a BUY) is emitted only if the strength reaches 1.2: with the RSI
\* micro-signals alone the BUY is suppressed.
C18_OversoldDecidesBuy ==
    OversoldNoSell =>
        /\ \A tf \in TF : RsiBuy(tf)
        /\ decision.signal_type = "BUY"
        /\ RLe(Rat(7, 10), decision.signal_strength)
        /\ decision.signal_confidence = RMul(decision.signal_strength, Rat(1, 2))
        /\ last_signal # NoSignal <=> RLe(Rat(12, 10), decision.signal_strength)
        /\ last_signal # NoSignal => last_signal.signal_type = "BUY"
        /\ decision.signal_strength = Rat(7, 10) => last_signal = NoSignal

\* C18: RSI 25 is all every timeframe shows; BUY was decided and suppressed
C18_Witness ==
    /\ OversoldNoSell
    /\ \A tf \in TF : indicators[tf] = Oversold
    /\ decision.signal_type = "BUY"
    /\ last_signal = NoSignal

\* the aggregation came to buy_score 0.5 and sell_score 0.45
HalfAgainstNineTwentieths ==
    /\ Analyzed
    /\ decision # EmptyDict
    /\ decision.buy_score = Rat(1, 2)
    /\ decision.sell_score = Rat(9, 20)

\* C19 as stated: with buy_score 0.5 and sell_score 0.45 the result of the
\* aggregation is a Signal with direction hold and strength 0.475.
C19_HoldSignal ==
    HalfAgainstNineTwentieths =>
        /\ last_signal # NoSignal
        /\ last_signal.signal_type = "HOLD"
        /\ last_signal.strength = Rat(19, 40)

\* C19, amended: with buy_score 0.5 and sell_score 0.45 the aggregation
\* decides HOLD, not BUY, with strength 0.475; its confidence, 0.475 times a
\* market-cycle confidence of at most 0.9, is below 0.6 and no Signal is
\* emitted.
C19_HoldDecidedAndSuppressed ==
    HalfAgainstNineTwentieths =>
        /\ decision.signal_type = "HOLD"
        /\ decision.signal_strength = Rat(19, 40)
        /\ RLt(decision.signal_confidence, Rat(6, 10))
        /\ decision.outcome = "suppressed"
        /\ last_signal = NoSignal

\* C19: the scores 0.5 and 0.45 were reached from micro-signals on 5m, 15m
\* and 1h
C19_Witness ==
    /\ HalfAgainstNineTwentieths
    /\ signals["1h"].sell # <<>>
    /\ signals["15m"].buy # <<>>

\* the lows and the highs of the series are strictly increasing
StrictlyRising(df) ==
    \A i \in 0..(df.len - 2) :
        LowAt(df, i) < LowAt(df, i + 1) /\ HighAt(df, i) < HighAt(df, i + 1)

\* C20: for a 4h series of at least 30 candles with strictly increasing lows
\* and highs, level detection finds no pivot: it returns no resistance level
\* and no support level, and groups nothing.
C20_RisingSeriesHasNoLevels ==
    (pc \in {7, 0} /\ candles["4h"].len >= MinCandles /\ StrictlyRising(candles["4h"])) =>
        /\ resistance = <<>>
        /\ support = <<>>
        /\ grouped_levels = <<>>

\* C20: level detection ran on a strictly rising series
C20_Witness ==
    /\ pc = 7
    /\ pass_result = "True"
    /\ candles["4h"].len >= MinCandles
    /\ candles["4h"].flat.rise > 0
    /\ StrictlyRising(candles["4h"])

\* the price of the level of a non-empty list nearest to the price p
NearestPrice(levels, p) ==
    LET i == CHOOSE i \in 1..Len(levels) :
                 \A j \in 1..Len(levels) :
                     RLe(RAbs(RSub(levels[i].price, p)), RAbs(RSub(levels[j].price, p)))
    IN  levels[i].price

\* x is nearer to the price p than y
Nearer(x, y, p) == RLt(RAbs(RSub(x, p)), RAbs(RSub(y, p)))

\* the prices suggested by the emitted Signal
entry == last_signal.suggested_actions[1].price
take_profit == last_signal.suggested_actions[2].price
stop_loss == last_signal.suggested_actions[3].price

\* the exits the rule gives: near is the list of the levels on the side of
\* the stop-loss, far the list on the side of the take-profit, s is 1 for
\* BUY and -1 for SELL
C22_Rule(near, far, s) ==
    LET current == RInt(last_price)
        flat_stop == PercentOff(last_price, -s * stop_loss_percent)
    IN  /\ entry = current
        /\ take_profit = IF far # <<>> THEN NearestPrice(far, current)
                         ELSE PercentOff(last_price, s * take_profit_percent)
        /\ stop_loss = IF near # <<>> /\ Nearer(NearestPrice(near, current), flat_stop, current)
                       THEN NearestPrice(near, current)
                       ELSE flat_stop

\* C22: in an emitted BUY Signal the entry is the current price, the
\* take-profit the nearest resistance level or, without one, the price plus
\* take_profit_percent, and the stop-loss the price minus stop_loss_percent
\* or the nearest support level when that is nearer; for SELL the same with
\* supports and resistances exchanged.
C22_EntryAndExits ==
    Emitted =>
        /\ last_signal.signal_type = "BUY" => C22_Rule(support, resistance, 1)
        /\ last_signal.signal_type = "SELL" => C22_Rule(resistance, support, -1)

\* C22: a BUY Signal was emitted with a resistance level for the take-profit
\* and a support level nearer than the flat stop-loss
C22_Witness ==
    /\ Emitted
    /\ last_signal.signal_type = "BUY"
    /\ resistance # <<>>
    /\ support # <<>>
    /\ stop_loss = support[1].price

\* C30: in every emitted BUY Signal stop-loss < entry < take-profit and the
\* stop-loss is at most stop_loss_percent of the entry below it; in every
\* emitted SELL Signal take-profit < entry < stop-loss and the stop-loss is at
\* most stop_loss_percent of the entry above it.
C30_ExitsAroundEntry ==
    Emitted =>
        LET risk == RMul(entry, Rat(stop_loss_percent, 100))
        IN  /\ last_signal.signal_type = "BUY" =>
                 /\ RLt(stop_loss, entry) /\ RLt(entry, take_profit)
                 /\ RLe(RSub(entry, stop_loss), risk)
            /\ last_signal.signal_type = "SELL" =>
                 /\ RLt(take_profit, entry) /\ RLt(entry, stop_loss)
                 /\ RLe(RSub(stop_loss, entry), risk)

\* C30: a SELL Signal was emitted while levels were held on both sides
C30_Witness ==
    /\ Emitted
    /\ last_signal.signal_type = "SELL"
    /\ resistance # <<>>
    /\ support # <<>>

\* the candidate of candle i is merged into the level g
MergedInto(c, g) ==
    /\ g.type = c.type
    /\ \E k \in 1..Len(g.members) : g.members[k] = c.date

\* the candidate of candle i is in one of the grouped levels
IsCandidate(i) ==
    \E n \in 1..Len(grouped_levels) :
        \E k \in 1..Len(grouped_levels[n].members) : grouped_levels[n].members[k] = i

\* C23 as stated: in a 4h series longer than the lookback cap, a pivot
\* becomes a candidate level exactly if it lies among the most recent
\* LookbackCap candles (outside the margin of 2).
C23_MostRecentCandles ==
    (pc = 7 /\ candles["4h"].len > LookbackCap) =>
        \A i \in 2..(candles["4h"].len - 3) :
            PivotsAt(candles["4h"], i) # <<>>
                => (IsCandidate(i) <=> i >= candles["4h"].len - LookbackCap)

\* the candidates of a kind, and the levels of a kind
OfKind(ls, kind) == SelectSeq(ls, LAMBDA l : l.type = kind)

\* C24: _group_levels returns, for every candidate list, levels of strength
\* >= 1 whose strength is the sum of the strengths of the candidates merged
\* into them and whose price is their strength-weighted average; every
\* candidate is merged into exactly one level, of its own kind, and the
\* summed strength of each kind is that of the candidates of the kind.
C24_StrengthConserved ==
    (pc = 7 /\ candles["4h"].len >= MinCandles) =>
        LET cands == pivot_points(candles["4h"])
            Merged(g) == SelectSeq(cands, LAMBDA c : MergedInto(c, g))
        IN  /\ \A n \in 1..Len(grouped_levels) :
                  LET g == grouped_levels[n]
                  IN  /\ g.strength >= 1
                      /\ g.strength = SumStrength(Merged(g))
                      /\ g.price = Rat(SumPrice(Merged(g)), g.strength)
            /\ \A k \in 1..Len(cands) :
                  Cardinality({n \in 1..Len(grouped_levels) :
                                  MergedInto(cands[k], grouped_levels[n])}) = 1
            /\ \A kind \in {"support", "resistance"} :
                  SumStrength(OfKind(grouped_levels, kind)) = SumStrength(OfKind(cands, kind))

\* C24: two candidates of different prices were merged into one level
C24_Witness ==
    /\ pc = 7
    /\ \E n \in 1..Len(grouped_levels) :
          /\ grouped_levels[n].strength >= 2
          /\ grouped_levels[n].price # RInt(grouped_levels[n].seed)
    /\ Len(grouped_levels) >= 2

\* Telegram accepted the part: a response of a successful status with ok true
Accepted(r) == ~r.raised /\ ~raise_for_status(r) /\ r.ok = "True"

\* Telegram answered ok = false
Refusal(r) == ~r.raised /\ r.ok = "False"

\* C29: a call of _send_telegram_message posts each part of the message at
\* most 3 times, posts nothing more after an answer with ok = false, returns
\* True only if every part was accepted, and returns False when the three
\* posts of some part raised.
C29_ThreeAttemptsNoRetry ==
    returned # "none" =>
        \A i \in DOMAIN posted :
            /\ Len(posted[i]) <= max_retries
            /\ \A k \in 1..(Len(posted[i]) - 1) : ~Refusal(posted[i][k])
            /\ returned = "True" =>
                   /\ Len(posted[i]) > 0
                   /\ Accepted(posted[i][Len(posted[i])])
            /\ ( /\ returned \in {"True", "False"}
                 /\ Len(posted[i]) = max_retries
                 /\ \A k \in 1..max_retries : posted[i][k].raised )
               => returned = "False"

\* the chat replies in the dialog of /subscribe or of /unsubscribe
InCoinDialog(chat_id) ==
    user_context[chat_id].state \in {"wait_for_subscribe", "wait_for_unsubscribe"}

\* the text names a symbol that is not one of the available symbols (the
\* word for all coins and the marker "ALL" of the lists name no symbol)
NamesUnavailable(text) ==
    /\ text # VSE
    /\ upper(text) # "ALL"
    /\ upper(text) \notin Elements(available_symbols)

\* the coin list is ["ALL"], or holds available symbols only, each once
WellFormedCoins(coins) ==
    \/ coins = <<"ALL">>
    \/ /\ Elements(coins) \subseteq Elements(available_symbols)
       /\ \A i, j \in DOMAIN coins : coins[i] = coins[j] => i = j

C28_ListsWellFormed ==
    \A i \in DOMAIN user_subscriptions : WellFormedCoins(user_subscriptions[i].coins)

C28_UnavailableChangesNothing ==
    \A chat_id \in DialogChats, text \in Texts, slept \in BOOLEAN :
        ( /\ InCoinDialog(chat_id)
          /\ NamesUnavailable(text)
          /\ _process_message(chat_id, text, slept) )
        => user_subscriptions' = user_subscriptions

\* C28: whatever messages _process_message has processed, the coin list of
\* every chat is exactly ["ALL"] or holds only available symbols without
\* duplicates, and a reply that names a symbol outside the available symbols
\* leaves the list as it was.
C28_CoinLists ==
    /\ []C28_ListsWellFormed
    /\ [][C28_UnavailableChangesNothing]_vars

\* the request of a chat for a symbol
Request(chat_id, symbol) == [chat_id |-> chat_id, symbol |-> symbol]

\* C25: once the bot has answered a chat that its request for the analysis
\* of an available symbol is accepted, a later get_analyze_requests() returns
\* the request of that chat for that symbol.
C25_AcceptedIsServed ==
    \A chat_id \in DialogChats, symbol \in Elements(available_symbols) :
        (accepted = Request(chat_id, symbol))
            ~> (Request(chat_id, symbol) \in requests)

\* the _send_telegram_message calls of the call that went to the chat
SendsTo(chat_id) ==
    Cardinality({i \in DOMAIN notifying.sends : notifying.sends[i] = chat_id})

\* a BUY or SELL signal of confidence 0.6 or more
Notifiable(signal) ==
    signal.signal_type \in {"BUY", "SELL"} /\ signal.confidence >= 60

\* C27: when a call of send_signal_notification has returned, then for a BUY
\* or SELL signal of confidence 0.6 or more every chat whose subscription
\* matched the signal received exactly one message and the main chat
\* received exactly one; for a HOLD signal or a lower confidence nothing was
\* sent and the call returned False.
C27_OneSendEach ==
    notifying.result \in {"True", "False"} =>
        IF Notifiable(notifying.signal)
        THEN /\ \A chat_id \in notifying.steady : SendsTo(chat_id) = 1
             /\ SendsTo(telegram_chat_id) = 1
        ELSE notifying.sends = <<>> /\ notifying.result = "False"

\* C26: whatever calls of start() and stop() were made, start() on a running
\* bot and stop() on a stopped bot have returned False, and no loop that
\* start() created runs an iteration after a stop() that followed its
\* creation.
C26_StoppedLoopsStayStopped ==
    /\ last_call.was_running /\ last_call.call = "start"
           => last_call.returned = "False"
    /\ ~last_call.was_running /\ last_call.call = "stop"
           => last_call.returned = "False"
    /\ \A t \in DOMAIN tasks : ~tasks[t].late

\* C21: no task writes the MarketData of the symbol while the pass of another
\* task over it is between the start of its update and the construction of
\* its Signal.
C21_PassesDoNotInterleave == ~disturbed

\* two tasks have run analyze_symbol for the symbol, one after the other
C21_Witness ==
    /\ ~disturbed
    /\ \E t, u \in DOMAIN tasks :
           /\ t # u
           /\ tasks[t].passed
           /\ tasks[u].passed

====
